---- MODULE Spec2Model ----
(***************************************************************************)
(* Query-time retrieval-and-grounding pipeline of the research-paper RAG   *)
(* service: scope classification (LLMQueryClassifier), section keyword     *)
(* classification (QueryClassifier), section-aware retrieval               *)
(* (SectionMatcher over VectorStore), context scoring                      *)
(* (ContextScoreTracker), grounding (EmbeddingService.generate_answer) and *)
(* the orchestrator RAGPipeline.query.                                     *)
(*                                                                         *)
(* Text is a sequence of one-character strings, so that substring and      *)
(* whole-word matching are computed as the code computes them.  Scores are *)
(* integers in hundredths (85 is 0.85); the context score and the          *)
(* hallucination risk are exact rationals in units of 1/Unit.              *)
(***************************************************************************)
EXTENDS Integers, Sequences, FiniteSets, TLC

\* ------------------------------------------------------------------------
\* Bounds of the model
\* ------------------------------------------------------------------------
MaxLimit == 2
MaxChunks == 2
MaxScores == 2

\* ------------------------------------------------------------------------
\* Text primitives (Python str operations used by the services)
\* ------------------------------------------------------------------------
\* Python None, for values that are otherwise texts
None == <<"None">>
\* Python None or a missing key, for values that are otherwise plain strings
Absent == "<absent>"

UpperChars == <<"A","B","C","D","E","F","G","H","I","J","K","L","M",
                "N","O","P","Q","R","S","T","U","V","W","X","Y","Z">>
LowerChars == <<"a","b","c","d","e","f","g","h","i","j","k","l","m",
                "n","o","p","q","r","s","t","u","v","w","x","y","z">>
Digits == {"0","1","2","3","4","5","6","7","8","9"}

LowerChar(c) ==
  IF \E i \in 1..26 : UpperChars[i] = c
  THEN LowerChars[CHOOSE i \in 1..26 : UpperChars[i] = c]
  ELSE c

\* str.lower()
Lower(s) == [i \in 1..Len(s) |-> LowerChar(s[i])]

IsSpace(c) == c \in {" ", "\n", "\t"}

\* str.strip()
Strip(s) ==
  IF \A i \in 1..Len(s) : IsSpace(s[i]) THEN << >>
  ELSE LET a == CHOOSE i \in 1..Len(s) :
                  ~IsSpace(s[i]) /\ \A j \in 1..(i-1) : IsSpace(s[j])
           b == CHOOSE i \in 1..Len(s) :
                  ~IsSpace(s[i]) /\ \A j \in (i+1)..Len(s) : IsSpace(s[j])
       IN SubSeq(s, a, b)

\* the positions at which k occurs in s
Occurrences(s, k) ==
  {i \in 1..(Len(s) - Len(k) + 1) : SubSeq(s, i, i + Len(k) - 1) = k}

\* k in s
Contains(s, k) == Len(k) = 0 \/ Occurrences(s, k) # {}

FirstIndex(s, k) ==
  CHOOSE i \in Occurrences(s, k) : \A j \in Occurrences(s, k) : i <= j

\* s.split(sep)[0]
BeforeFirst(s, sep) ==
  IF Contains(s, sep) THEN SubSeq(s, 1, FirstIndex(s, sep) - 1) ELSE s

AfterFirst(s, sep) == SubSeq(s, FirstIndex(s, sep) + Len(sep), Len(s))

\* s.split(sep)[1], for s that contains sep
SplitSecond(s, sep) == BeforeFirst(AfterFirst(s, sep), sep)

\* s.split("\n")
RECURSIVE SplitLines(_)
SplitLines(s) ==
  IF Contains(s, <<"\n">>)
  THEN <<BeforeFirst(s, <<"\n">>)>> \o SplitLines(AfterFirst(s, <<"\n">>))
  ELSE <<s>>

\* \w of the re module, for the characters of the model's texts
IsWordChar(c) ==
  \/ \E i \in 1..26 : c = UpperChars[i] \/ c = LowerChars[i]
  \/ c \in Digits
  \/ c = "_"

\* a search with no \b on either side
WholeWordMatch_substring(s, k) == Contains(s, k)

\* re.search(r'\b' + re.escape(k) + r'\b', s): every keyword of the tables
\* starts and ends with a word character, so \b asks for a non-word
\* character (or the end of the text) on the outer side
WholeWordMatch(s, k) ==
  \E i \in Occurrences(s, k) :
     /\ (i = 1 \/ ~IsWordChar(s[i-1]))
     /\ (i + Len(k) - 1 = Len(s) \/ ~IsWordChar(s[i + Len(k)]))

\* any(kw in s for kw in kws)
AnyContained(s, kws) == \E i \in 1..Len(kws) : Contains(s, kws[i])

\* ------------------------------------------------------------------------
\* LLMQueryClassifier
\* ------------------------------------------------------------------------
SCOPE_GLOBAL == "global"
SCOPE_LOCAL == "local"
SCOPE_OUT_OF_CONTEXT == "out_of_context"
QueryScope == {SCOPE_GLOBAL, SCOPE_LOCAL, SCOPE_OUT_OF_CONTEXT}

out_of_context_keywords ==
  << <<"h","i">>,
     <<"h","e","l","l","o">>,
     <<"h","e","y">>,
     <<"h","o","w"," ","a","r","e"," ","y","o","u">>,
     <<"t","h","a","n","k","s">>,
     <<"t","h","a","n","k"," ","y","o","u">>,
     <<"w","h","o"," ","a","r","e"," ","y","o","u">>,
     <<"w","h","a","t"," ","c","a","n"," ","y","o","u"," ","d","o">>,
     <<"h","e","l","p"," ","m","e">> >>

global_keywords ==
  <<
    [name |-> <<"s","u","m","m","a","r","y">>,
     keywords |-> <<
        <<"s","u","m","m","a","r","y">>,
        <<"s","u","m","m","a","r","i","z","e">>,
        <<"s","u","m","m","a","r","i","z","a","t","i","o","n">>,
        <<"t","l",";","d","r">> >>],
    [name |-> <<"c","o","m","p","a","r","e">>,
     keywords |-> <<
        <<"c","o","m","p","a","r","e">>,
        <<"c","o","m","p","a","r","i","s","o","n">>,
        <<"v","s">>,
        <<"v","e","r","s","u","s">>,
        <<"d","i","f","f","e","r","e","n","c","e">>,
        <<"d","i","f","f","e","r","e","n","t">> >>],
    [name |-> <<"t","r","a","n","s","l","a","t","e">>,
     keywords |-> <<
        <<"t","r","a","n","s","l","a","t","e">>,
        <<"t","r","a","n","s","l","a","t","i","o","n">>,
        <<"c","o","n","v","e","r","t">>,
        <<"r","e","p","h","r","a","s","e">> >>],
    [name |-> <<"r","e","w","r","i","t","e">>,
     keywords |-> <<
        <<"r","e","w","r","i","t","e">>,
        <<"s","i","m","p","l","i","f","y">>,
        <<"p","a","r","a","p","h","r","a","s","e">>,
        <<"e","a","s","i","e","r">> >>],
    [name |-> <<"o","v","e","r","v","i","e","w">>,
     keywords |-> <<
        <<"o","v","e","r","v","i","e","w">>,
        <<"b","i","g"," ","p","i","c","t","u","r","e">>,
        <<"h","i","g","h"," ","l","e","v","e","l">>,
        <<"g","e","n","e","r","a","l">> >>],
    [name |-> <<"b","u","l","l","e","t">>,
     keywords |-> <<
        <<"b","u","l","l","e","t">>,
        <<"b","u","l","l","e","t","s">>,
        <<"p","o","i","n","t","s">>,
        <<"l","i","s","t">> >>]
  >>

operations ==
  << <<"s","u","m","m","a","r","y">>,
     <<"t","r","a","n","s","l","a","t","e">>,
     <<"r","e","w","r","i","t","e">>,
     <<"c","o","m","p","a","r","e">>,
     <<"o","v","e","r","v","i","e","w">>,
     <<"b","u","l","l","e","t">> >>

Classification(scope, operation, confidence) ==
  [scope |-> scope, operation |-> operation, confidence |-> confidence,
   is_global |-> (scope = SCOPE_GLOBAL), is_local |-> (scope = SCOPE_LOCAL),
   is_out_of_context |-> (scope = SCOPE_OUT_OF_CONTEXT)]

\* the last group of the table with a keyword in the query
FirstGlobalGroup_last(query_lower) ==
  CHOOSE g \in 1..Len(global_keywords) :
     /\ AnyContained(query_lower, global_keywords[g].keywords)
     /\ \A h \in (g+1)..Len(global_keywords) :
          ~AnyContained(query_lower, global_keywords[h].keywords)

\* the first group, in table order, one of whose keywords is in the query
FirstGlobalGroup(query_lower) ==
  CHOOSE g \in 1..Len(global_keywords) :
     /\ AnyContained(query_lower, global_keywords[g].keywords)
     /\ \A h \in 1..(g-1) :
          ~AnyContained(query_lower, global_keywords[h].keywords)

fallback_classification(query) ==
  LET query_lower == Lower(query) IN
  IF AnyContained(query_lower, out_of_context_keywords)
  THEN Classification(SCOPE_OUT_OF_CONTEXT, None, 80)
  ELSE IF \E g \in 1..Len(global_keywords) :
            AnyContained(query_lower, global_keywords[g].keywords)
  THEN Classification(SCOPE_GLOBAL, global_keywords[FirstGlobalGroup(query_lower)].name, 75)
  ELSE Classification(SCOPE_LOCAL, None, 70)

\* the effect of one line of the response on the parse result
ParseLine(result, line) ==
  IF Contains(line, <<"s","c","o","p","e",":">>)
  THEN IF Contains(line, <<"g","l","o","b","a","l">>)
       THEN [result EXCEPT !.scope = SCOPE_GLOBAL]
       ELSE IF Contains(line, <<"l","o","c","a","l">>)
       THEN [result EXCEPT !.scope = SCOPE_LOCAL]
       ELSE IF Contains(line, <<"o","u","t","_","o","f","_","c","o","n","t","e","x","t">>)
       THEN [result EXCEPT !.scope = SCOPE_OUT_OF_CONTEXT]
       ELSE result
  ELSE IF Contains(line, <<"o","p","e","r","a","t","i","o","n",":">>)
  THEN LET line_content == Strip(SplitSecond(line, <<"o","p","e","r","a","t","i","o","n",":">>))
           found == {i \in 1..Len(operations) : Contains(line_content, operations[i])}
       IN IF found = {} THEN result
          ELSE [result EXCEPT !.operation =
                  operations[CHOOSE i \in found : \A j \in found : i <= j]]
  ELSE result

RECURSIVE ParseLines(_, _)
ParseLines(result, lines) ==
  IF lines = << >> THEN result
  ELSE ParseLines(ParseLine(result, Head(lines)), Tail(lines))

parse_llm_response(response_text) ==
  ParseLines([scope |-> SCOPE_LOCAL, operation |-> None, confidence |-> 90],
             SplitLines(Lower(response_text)))

\* what the generative scope backend does with one prompt

ScopeTextGlobal ==
  <<"S","C","O","P","E",":"," ","g","l","o","b","a","l","\n","O","P","E","R","A","T","I","O","N",":"," ","s","u","m","m","a","r","y","\n","R","E","A","S","O","N",":"," ","a","s","k","s"," ","f","o","r"," ","a"," ","s","u","m","m","a","r","y">>
ScopeTextLocal ==
  <<"S","C","O","P","E",":"," ","l","o","c","a","l","\n","R","E","A","S","O","N",":"," ","s","p","e","c","i","f","i","c"," ","c","o","n","t","e","n","t">>
ScopeTextOutOfContext ==
  <<"S","C","O","P","E",":"," ","o","u","t","_","o","f","_","c","o","n","t","e","x","t","\n","R","E","A","S","O","N",":"," ","c","a","s","u","a","l"," ","t","a","l","k">>
ScopeTextGarbage ==
  <<"S","o","r","r","y",","," ","I"," ","c","a","n","n","o","t"," ","a","n","s","w","e","r"," ","t","h","a","t",".">>

ScopeBackendOutcomes ==
  {[kind |-> "raise", text |-> << >>]} \cup
  {[kind |-> "text", text |-> t] :
     t \in {ScopeTextGlobal, ScopeTextLocal, ScopeTextOutOfContext, ScopeTextGarbage}}

Raised(exc) == [raised |-> TRUE, exc |-> exc]
Returned(v) == [raised |-> FALSE, value |-> v]

\* LLMQueryClassifier.classify without its except clause: the exception of
\* the backend leaves the method
classify_unguarded(query, backend) ==
  IF backend.kind = "raise"
  THEN Raised("BackendError")
  ELSE LET parsed == parse_llm_response(Strip(backend.text))
       IN Returned(Classification(parsed.scope, parsed.operation, parsed.confidence))

\* LLMQueryClassifier.classify, given what the backend did with the prompt
classify(query, backend) ==
  IF backend.kind = "raise"
  THEN Returned(fallback_classification(query))
  ELSE LET parsed == parse_llm_response(Strip(backend.text))
       IN Returned(Classification(parsed.scope, parsed.operation, parsed.confidence))

\* ------------------------------------------------------------------------
\* QueryClassifier (keyword tables, whole-word matching)
\* ------------------------------------------------------------------------
SECTION_SPECIFIC == "section_specific"
GLOBAL_QUERY == "global_query"
CONTEXT_SPECIFIC == "context_specific"
QT_OUT_OF_CONTEXT == "out_of_context"

PAPER_SECTIONS ==
  <<
    [name |-> <<"a","b","s","t","r","a","c","t">>,
     keywords |-> <<
        <<"a","b","s","t","r","a","c","t">>,
        <<"s","u","m","m","a","r","y">>,
        <<"o","v","e","r","v","i","e","w">> >>],
    [name |-> <<"i","n","t","r","o","d","u","c","t","i","o","n">>,
     keywords |-> <<
        <<"i","n","t","r","o","d","u","c","t","i","o","n">>,
        <<"i","n","t","r","o">>,
        <<"b","a","c","k","g","r","o","u","n","d">>,
        <<"r","e","l","a","t","e","d"," ","w","o","r","k">> >>],
    [name |-> <<"m","e","t","h","o","d","o","l","o","g","y">>,
     keywords |-> <<
        <<"m","e","t","h","o","d","o","l","o","g","y">>,
        <<"m","e","t","h","o","d">>,
        <<"a","p","p","r","o","a","c","h">>,
        <<"f","r","a","m","e","w","o","r","k">>,
        <<"a","r","c","h","i","t","e","c","t","u","r","e">> >>],
    [name |-> <<"r","e","s","u","l","t","s">>,
     keywords |-> <<
        <<"r","e","s","u","l","t","s">>,
        <<"r","e","s","u","l","t">>,
        <<"f","i","n","d","i","n","g","s">>,
        <<"e","x","p","e","r","i","m","e","n","t","s">>,
        <<"e","x","p","e","r","i","m","e","n","t","a","l">>,
        <<"e","v","a","l","u","a","t","i","o","n">> >>],
    [name |-> <<"c","o","n","c","l","u","s","i","o","n">>,
     keywords |-> <<
        <<"c","o","n","c","l","u","s","i","o","n">>,
        <<"c","o","n","c","l","u","s","i","o","n","s">>,
        <<"s","u","m","m","a","r","y">>,
        <<"f","u","t","u","r","e"," ","w","o","r","k">>,
        <<"l","i","m","i","t","a","t","i","o","n","s">> >>],
    [name |-> <<"r","e","f","e","r","e","n","c","e","s">>,
     keywords |-> <<
        <<"r","e","f","e","r","e","n","c","e","s">>,
        <<"c","i","t","a","t","i","o","n","s">>,
        <<"b","i","b","l","i","o","g","r","a","p","h","y">> >>],
    [name |-> <<"d","i","s","c","u","s","s","i","o","n">>,
     keywords |-> <<
        <<"d","i","s","c","u","s","s","i","o","n">>,
        <<"a","n","a","l","y","s","i","s">>,
        <<"i","m","p","l","i","c","a","t","i","o","n","s">> >>],
    [name |-> <<"f","u","t","u","r","e","_","w","o","r","k">>,
     keywords |-> <<
        <<"f","u","t","u","r","e"," ","w","o","r","k">>,
        <<"f","u","t","u","r","e"," ","r","e","s","e","a","r","c","h">>,
        <<"f","u","t","u","r","e"," ","d","i","r","e","c","t","i","o","n","s">> >>]
  >>

GLOBAL_KEYWORDS ==
  <<
    [name |-> <<"s","u","m","m","a","r","y">>,
     keywords |-> <<
        <<"s","u","m","m","a","r","y">>,
        <<"s","u","m","m","a","r","i","z","e">>,
        <<"s","u","m","m","a","r","i","z","a","t","i","o","n">>,
        <<"s","u","m","m","e","d"," ","u","p">>,
        <<"t","l",";","d","r">> >>],
    [name |-> <<"o","v","e","r","v","i","e","w">>,
     keywords |-> <<
        <<"o","v","e","r","v","i","e","w">>,
        <<"o","v","e","r","v","i","e","w">>,
        <<"b","i","g"," ","p","i","c","t","u","r","e">>,
        <<"h","i","g","h"," ","l","e","v","e","l">> >>],
    [name |-> <<"t","r","a","n","s","l","a","t","e">>,
     keywords |-> <<
        <<"t","r","a","n","s","l","a","t","e">>,
        <<"t","r","a","n","s","l","a","t","i","o","n">>,
        <<"c","o","n","v","e","r","t">>,
        <<"r","e","p","h","r","a","s","e">> >>],
    [name |-> <<"r","e","w","r","i","t","e">>,
     keywords |-> <<
        <<"r","e","w","r","i","t","e">>,
        <<"r","e","w","r","i","t","i","n","g">>,
        <<"p","a","r","a","p","h","r","a","s","e">>,
        <<"s","i","m","p","l","i","f","y">> >>],
    [name |-> <<"b","u","l","l","e","t">>,
     keywords |-> <<
        <<"b","u","l","l","e","t">>,
        <<"b","u","l","l","e","t","s">>,
        <<"p","o","i","n","t","s">>,
        <<"l","i","s","t">> >>],
    [name |-> <<"c","o","m","p","a","r","e">>,
     keywords |-> <<
        <<"c","o","m","p","a","r","e">>,
        <<"c","o","m","p","a","r","i","s","o","n">>,
        <<"v","s">>,
        <<"v","e","r","s","u","s">>,
        <<"d","i","f","f","e","r","e","n","c","e">> >>],
    [name |-> <<"e","x","p","l","a","i","n">>,
     keywords |-> <<
        <<"e","x","p","l","a","i","n">>,
        <<"e","x","p","l","a","n","a","t","i","o","n">>,
        <<"c","l","a","r","i","f","y">>,
        <<"e","l","a","b","o","r","a","t","e">> >>]
  >>

OUT_OF_CONTEXT_KEYWORDS ==
  <<
    [name |-> <<"g","r","e","e","t","i","n","g">>,
     keywords |-> <<
        <<"h","i">>,
        <<"h","e","l","l","o">>,
        <<"h","e","y">>,
        <<"g","r","e","e","t","i","n","g","s">>,
        <<"h","o","w","d","y">> >>],
    [name |-> <<"c","a","s","u","a","l">>,
     keywords |-> <<
        <<"h","o","w"," ","a","r","e"," ","y","o","u">>,
        <<"h","o","w","'","s"," ","i","t"," ","g","o","i","n","g">>,
        <<"w","h","a","t","'","s"," ","u","p">>,
        <<"t","h","a","n","k","s">>,
        <<"t","h","a","n","k"," ","y","o","u">> >>],
    [name |-> <<"m","e","t","a">>,
     keywords |-> <<
        <<"w","h","a","t"," ","c","a","n"," ","y","o","u"," ","d","o">>,
        <<"h","e","l","p">>,
        <<"w","h","a","t"," ","i","s"," ","t","h","i","s">>,
        <<"w","h","o"," ","a","r","e"," ","y","o","u">>,
        <<"t","e","l","l"," ","m","e"," ","a","b","o","u","t"," ","y","o","u","r","s","e","l","f">> >>]
  >>

\* the (group, keyword) positions of a table whose keyword matches the
\* query as a whole word, in the order the loops visit them
TableMatches(tbl, query_lower) ==
  UNION {{<<g, k>> : k \in {j \in 1..Len(tbl[g].keywords) :
                             WholeWordMatch(query_lower, tbl[g].keywords[j])}} :
         g \in 1..Len(tbl)}

PosBefore(p, q) == p[1] < q[1] \/ (p[1] = q[1] /\ p[2] < q[2])

FirstMatch(ms) == CHOOSE p \in ms : \A q \in ms : p = q \/ PosBefore(p, q)
LastMatch(ms) == CHOOSE p \in ms : \A q \in ms : p = q \/ PosBefore(q, p)

\* ord() of the characters of the section labels
Ord(c) ==
  IF c = "_" THEN 95
  ELSE IF \E i \in 1..26 : LowerChars[i] = c
  THEN 96 + (CHOOSE i \in 1..26 : LowerChars[i] = c)
  ELSE 32

\* a < b for Python strings
StrLess(a, b) ==
  \E i \in 1..(Len(b)) :
     /\ \A j \in 1..(i-1) : j <= Len(a) /\ a[j] = b[j]
     /\ (i > Len(a) \/ (i <= Len(a) /\ Ord(a[i]) < Ord(b[i])))
     /\ i - 1 <= Len(a)

Min2(a, b) == IF a <= b THEN a ELSE b
Max2(a, b) == IF a >= b THEN a ELSE b

check_out_of_context(query_lower) ==
  LET ms == TableMatches(OUT_OF_CONTEXT_KEYWORDS, query_lower) IN
  IF ms # {}
  THEN [match |-> TRUE,
        category |-> OUT_OF_CONTEXT_KEYWORDS[LastMatch(ms)[1]].name,
        confidence |-> Min2(100, Cardinality(ms) * 30)]
  ELSE [match |-> FALSE, category |-> None, confidence |-> 0]

check_global_query(query_lower) ==
  LET ms == TableMatches(GLOBAL_KEYWORDS, query_lower) IN
  IF ms # {}
  THEN [match |-> TRUE,
        operation |-> GLOBAL_KEYWORDS[FirstMatch(ms)[1]].name,
        confidence |-> Min2(100, Cardinality({p[1] : p \in ms}) * 40)]
  ELSE [match |-> FALSE, operation |-> None, confidence |-> 0]

check_section_specific(query_lower) ==
  LET ms == TableMatches(PAPER_SECTIONS, query_lower)
      names == {PAPER_SECTIONS[p[1]].name : p \in ms}
  IN
  IF ms # {}
  THEN [match |-> TRUE,
        section |-> CHOOSE s \in names : \A t \in names : t = s \/ StrLess(t, s),
        confidence |-> Min2(100, Cardinality(ms) * 30)]
  ELSE [match |-> FALSE, section |-> None, confidence |-> 0]

\* QueryClassifier.classify
keyword_classify(query) ==
  LET query_lower == Strip(Lower(query))
      ooc == check_out_of_context(query_lower)
      glob == check_global_query(query_lower)
      sec == check_section_specific(query_lower)
  IN
  IF ooc.match
  THEN [query_type |-> QT_OUT_OF_CONTEXT, category |-> ooc.category,
        confidence |-> ooc.confidence, detected_section |-> None,
        is_global |-> FALSE, global_operation |-> None]
  ELSE IF glob.match
  THEN [query_type |-> GLOBAL_QUERY, category |-> None,
        confidence |-> glob.confidence, detected_section |-> None,
        is_global |-> TRUE, global_operation |-> glob.operation]
  ELSE IF sec.match
  THEN [query_type |-> SECTION_SPECIFIC, category |-> None,
        confidence |-> sec.confidence, detected_section |-> sec.section,
        is_global |-> FALSE, global_operation |-> None]
  ELSE [query_type |-> CONTEXT_SPECIFIC, category |-> None,
        confidence |-> 70, detected_section |-> None,
        is_global |-> FALSE, global_operation |-> None]

\* ------------------------------------------------------------------------
\* The vector index and the document store
\* ------------------------------------------------------------------------
\* the points a paper upload writes to the index: the payload of a chunk
\* (text, file_name, source, section, page) under its vector id; a payload
\* written by an older ingestion path has only one of file_name and source
AllChunks ==
  << [id |-> 1, text |-> <<"w","e"," ","t","r","a","i","n"," ","a"," ","m","o","d","e","l">>,
      file_name |-> "p1.pdf", source |-> "p1.pdf",
      section |-> <<"M","e","t","h","o","d","o","l","o","g","y">>, page |-> 3],
     [id |-> 2, text |-> <<"o","u","r"," ","m","e","t","h","o","d"," ","a","n","d"," ","a","p","p","r","o","a","c","h"," ","w","o","r","k">>,
      file_name |-> Absent, source |-> "p2.pdf",
      section |-> <<"R","e","s","u","l","t","s">>, page |-> 5],
     [id |-> 3, text |-> <<"s","m","i","t","h"," ","e","t"," ","a","l">>,
      file_name |-> "p1.pdf", source |-> Absent,
      section |-> <<"R","e","f","e","r","e","n","c","e","s">>, page |-> 9],
     [id |-> 4, text |-> <<"t","h","e"," ","d","e","s","i","g","n"," ","o","f"," ","t","h","e"," ","s","y","s","t","e","m">>,
      file_name |-> "p3.pdf", source |-> "p3.pdf",
      section |-> <<"S","y","s","t","e","m"," ","D","e","s","i","g","n">>, page |-> 2] >>

\* similarity scores the index may report, in hundredths
Scores == {20, 50, 85}

\* the papers of the document store: Paper.id is the file name
PaperNames == {"p1.pdf", "p2.pdf", "p3.pdf"}

PaperOf(c) == IF c.file_name # Absent THEN c.file_name ELSE c.source

\* MongoDBService.get_papers(): the ids of the stored papers
get_papers(points) == {PaperOf(c) : c \in points}

\* a Filter whose conditions on file_name and source must both hold
MatchesFilter_must(c, filter) ==
  filter = {} \/ (c.file_name \in filter /\ c.source \in filter)

\* the Filter of search_similar: file_name or source is one of the names
MatchesFilter(c, filter) ==
  filter = {} \/ c.file_name \in filter \/ c.source \in filter

Hit(c, score) ==
  [text |-> c.text,
   metadata |-> [id |-> c.id, file_name |-> c.file_name, source |-> c.source,
                 section |-> c.section, page |-> c.page],
   score |-> score, section_boost |-> -1]

IsRanked(hits) ==
  \A i \in 1..(Len(hits) - 1) : hits[i].score >= hits[i+1].score

Injective(f) == \A i, j \in DOMAIN f : f[i] = f[j] => i = j

\* what query_points may answer: at most `limit` of the matching points,
\* each once, best score first; the scores are the index's own
QueryPointsAnswers(points, filter, k) ==
  LET matching == {c \in points : MatchesFilter(c, filter)}
      n == Min2(k, Cardinality(matching))
  IN {hits \in [1..n -> {Hit(c, s) : c \in matching, s \in Scores}] :
        /\ Injective([i \in 1..n |-> hits[i].metadata.id])
        /\ IsRanked(hits)}

\* VectorStore.search_similar: a failed search is logged and answered []
search_similar(answer) ==
  IF answer.kind = "raise" THEN << >> ELSE answer.hits

\* ------------------------------------------------------------------------
\* SectionMatcher
\* ------------------------------------------------------------------------

SECTION_KEYWORDS ==
  <<
    [name |-> <<"a","b","s","t","r","a","c","t">>,
     keywords |-> <<
        <<"a","b","s","t","r","a","c","t">>,
        <<"s","u","m","m","a","r","y">>,
        <<"o","v","e","r","v","i","e","w">> >>],
    [name |-> <<"i","n","t","r","o","d","u","c","t","i","o","n">>,
     keywords |-> <<
        <<"i","n","t","r","o","d","u","c","t","i","o","n">>,
        <<"i","n","t","r","o">>,
        <<"b","a","c","k","g","r","o","u","n","d">>,
        <<"r","e","l","a","t","e","d"," ","w","o","r","k">>,
        <<"m","o","t","i","v","a","t","i","o","n">> >>],
    [name |-> <<"m","e","t","h","o","d","o","l","o","g","y">>,
     keywords |-> <<
        <<"m","e","t","h","o","d","o","l","o","g","y">>,
        <<"m","e","t","h","o","d">>,
        <<"a","p","p","r","o","a","c","h">>,
        <<"f","r","a","m","e","w","o","r","k">>,
        <<"a","r","c","h","i","t","e","c","t","u","r","e">>,
        <<"s","y","s","t","e","m">>,
        <<"d","e","s","i","g","n">> >>],
    [name |-> <<"r","e","s","u","l","t","s">>,
     keywords |-> <<
        <<"r","e","s","u","l","t","s">>,
        <<"r","e","s","u","l","t">>,
        <<"f","i","n","d","i","n","g","s">>,
        <<"e","x","p","e","r","i","m","e","n","t","s">>,
        <<"e","x","p","e","r","i","m","e","n","t","a","l">>,
        <<"e","v","a","l","u","a","t","i","o","n">>,
        <<"p","e","r","f","o","r","m","a","n","c","e">> >>],
    [name |-> <<"c","o","n","c","l","u","s","i","o","n">>,
     keywords |-> <<
        <<"c","o","n","c","l","u","s","i","o","n">>,
        <<"c","o","n","c","l","u","s","i","o","n","s">>,
        <<"f","i","n","a","l">>,
        <<"s","u","m","m","a","r","y">> >>],
    [name |-> <<"d","i","s","c","u","s","s","i","o","n">>,
     keywords |-> <<
        <<"d","i","s","c","u","s","s","i","o","n">>,
        <<"a","n","a","l","y","s","i","s">>,
        <<"i","m","p","l","i","c","a","t","i","o","n","s">>,
        <<"i","m","p","a","c","t">> >>],
    [name |-> <<"f","u","t","u","r","e","_","w","o","r","k">>,
     keywords |-> <<
        <<"f","u","t","u","r","e"," ","w","o","r","k">>,
        <<"f","u","t","u","r","e"," ","r","e","s","e","a","r","c","h">>,
        <<"f","u","t","u","r","e"," ","d","i","r","e","c","t","i","o","n","s">>,
        <<"l","i","m","i","t","a","t","i","o","n","s">>,
        <<"o","p","e","n"," ","p","r","o","b","l","e","m","s">> >>],
    [name |-> <<"r","e","f","e","r","e","n","c","e","s">>,
     keywords |-> <<
        <<"r","e","f","e","r","e","n","c","e","s">>,
        <<"c","i","t","a","t","i","o","n","s">>,
        <<"b","i","b","l","i","o","g","r","a","p","h","y">> >>]
  >>

section_aliases ==
  <<
    [name |-> <<"a","b","s","t","r","a","c","t">>,
     keywords |-> <<
        <<"a","b","s","t","r","a","c","t">>,
        <<"s","u","m","m","a","r","y">>,
        <<"o","v","e","r","v","i","e","w">> >>],
    [name |-> <<"i","n","t","r","o","d","u","c","t","i","o","n">>,
     keywords |-> <<
        <<"i","n","t","r","o","d","u","c","t","i","o","n">>,
        <<"i","n","t","r","o">>,
        <<"r","e","l","a","t","e","d"," ","w","o","r","k">>,
        <<"b","a","c","k","g","r","o","u","n","d">> >>],
    [name |-> <<"m","e","t","h","o","d","o","l","o","g","y">>,
     keywords |-> <<
        <<"m","e","t","h","o","d","o","l","o","g","y">>,
        <<"m","e","t","h","o","d">>,
        <<"a","p","p","r","o","a","c","h">>,
        <<"f","r","a","m","e","w","o","r","k">>,
        <<"d","e","s","i","g","n">>,
        <<"s","y","s","t","e","m">> >>],
    [name |-> <<"r","e","s","u","l","t","s">>,
     keywords |-> <<
        <<"r","e","s","u","l","t","s">>,
        <<"f","i","n","d","i","n","g","s">>,
        <<"e","x","p","e","r","i","m","e","n","t","s">>,
        <<"e","v","a","l","u","a","t","i","o","n">>,
        <<"p","e","r","f","o","r","m","a","n","c","e">> >>],
    [name |-> <<"c","o","n","c","l","u","s","i","o","n">>,
     keywords |-> <<
        <<"c","o","n","c","l","u","s","i","o","n">>,
        <<"c","o","n","c","l","u","s","i","o","n","s">>,
        <<"s","u","m","m","a","r","y">> >>],
    [name |-> <<"d","i","s","c","u","s","s","i","o","n">>,
     keywords |-> <<
        <<"d","i","s","c","u","s","s","i","o","n">>,
        <<"a","n","a","l","y","s","i","s">> >>],
    [name |-> <<"f","u","t","u","r","e","_","w","o","r","k">>,
     keywords |-> <<
        <<"f","u","t","u","r","e"," ","w","o","r","k">>,
        <<"l","i","m","i","t","a","t","i","o","n","s">> >>],
    [name |-> <<"r","e","f","e","r","e","n","c","e","s">>,
     keywords |-> <<
        <<"r","e","f","e","r","e","n","c","e","s">>,
        <<"c","i","t","a","t","i","o","n","s">> >>]
  >>

\* dict.get(key, []) on one of the two tables
TableGet(tbl, key) ==
  IF \E g \in 1..Len(tbl) : tbl[g].name = key
  THEN tbl[CHOOSE g \in 1..Len(tbl) : tbl[g].name = key].keywords
  ELSE << >>

\* the boost of one candidate, in hundredths
score_boost(result, target_section) ==
  LET target_lower == Lower(target_section)
      section_keywords == TableGet(SECTION_KEYWORDS, target_lower)
      matched_aliases == TableGet(section_aliases, target_lower)
      detected_section == Lower(result.metadata.section)
      text == Lower(result.text)
      keyword_count == Cardinality({i \in 1..Len(section_keywords) :
                                      Contains(text, section_keywords[i])})
  IN IF detected_section = target_lower THEN 25
     ELSE IF \E i \in 1..Len(matched_aliases) :
               \/ detected_section = matched_aliases[i]
               \/ Contains(detected_section, matched_aliases[i])
     THEN 15
     ELSE IF keyword_count > 0 THEN Min2(15, keyword_count * 3)
     ELSE 0

\* the sort without reverse=True: stable, worst score first
SortByScoreAsc(hits) ==
  LET n == Len(hits)
      rank(i) == 1 + Cardinality({j \in 1..n :
                     \/ hits[j].score < hits[i].score
                     \/ (hits[j].score = hits[i].score /\ j < i)})
  IN [p \in 1..n |-> hits[CHOOSE i \in 1..n : rank(i) = p]]

\* list.sort(key=score, reverse=True): stable, best score first
SortByScoreDesc(hits) ==
  LET n == Len(hits)
      rank(i) == 1 + Cardinality({j \in 1..n :
                     \/ hits[j].score > hits[i].score
                     \/ (hits[j].score = hits[i].score /\ j < i)})
  IN [p \in 1..n |-> hits[CHOOSE i \in 1..n : rank(i) = p]]

filter_by_section(results, target_section) ==
  SortByScoreDesc(
    [i \in 1..Len(results) |->
       [results[i] EXCEPT
          !.score = Min2(100, results[i].score + score_boost(results[i], target_section)),
          !.section_boost = score_boost(results[i], target_section)]])

\* section_results[:limit]
\* the last k hits instead of the first k
Truncate_tail(hits, k) == SubSeq(hits, Len(hits) - Min2(k, Len(hits)) + 1, Len(hits))

Truncate(hits, k) == SubSeq(hits, 1, Min2(k, Len(hits)))

\* the text retrieve_section embeds
section_query(query, section_name) == query \o <<" ">> \o section_name

\* ------------------------------------------------------------------------
\* ContextScoreTracker
\* ------------------------------------------------------------------------
\* 1.0 in the units of the context score and of the risk; a score in
\* hundredths is PerHundredth units
Unit == 6000
PerHundredth == 60
HIGH_CONFIDENCE_THRESHOLD == 4200
MEDIUM_CONFIDENCE_THRESHOLD == 3000
LOW_CONFIDENCE_THRESHOLD == 1800

RECURSIVE SumSeq(_)
SumSeq(s) == IF s = << >> THEN 0 ELSE Head(s) + SumSeq(Tail(s))

\* the clamp left out
NotClamped(x) == x

Clamp01(x) == Max2(0, Min2(Unit, x))

get_confidence_level(score) ==
  IF score >= HIGH_CONFIDENCE_THRESHOLD THEN "high"
  ELSE IF score >= MEDIUM_CONFIDENCE_THRESHOLD THEN "medium"
  ELSE IF score >= LOW_CONFIDENCE_THRESHOLD THEN "low"
  ELSE "very_low"

\* the two diversity penalties the wrong way round
calculate_context_score_penalties_swapped(retrieval_scores, query_coverage, source_diversity) ==
  IF retrieval_scores = << >>
  THEN [score |-> 0, level |-> "very_low"]
  ELSE LET avg_retrieval_score ==
             (SumSeq(retrieval_scores) * PerHundredth) \div Len(retrieval_scores)
           coverage_bonus == query_coverage \div 5
           diversity_penalty == IF source_diversity = 1 THEN 1200
                                ELSE IF source_diversity = 0 THEN 600
                                ELSE 0
           context_score == Clamp01(avg_retrieval_score + coverage_bonus - diversity_penalty)
       IN [score |-> context_score, level |-> get_confidence_level(context_score)]

\* retrieval_scores in hundredths, query_coverage in units; the mean is
\* exact because the number of scores divides PerHundredth
calculate_context_score(retrieval_scores, query_coverage, source_diversity) ==
  IF retrieval_scores = << >>
  THEN [score |-> 0, level |-> "very_low"]
  ELSE LET avg_retrieval_score ==
             (SumSeq(retrieval_scores) * PerHundredth) \div Len(retrieval_scores)
           coverage_bonus == query_coverage \div 5
           diversity_penalty == IF source_diversity = 1 THEN 600
                                ELSE IF source_diversity = 0 THEN 1200
                                ELSE 0
           context_score == Clamp01(avg_retrieval_score + coverage_bonus - diversity_penalty)
       IN [score |-> context_score, level |-> get_confidence_level(context_score)]

is_low_confidence(score) == score < LOW_CONFIDENCE_THRESHOLD

\* the scores taken from the wrong key of the hits
extract_section_boosts(results) ==
  [i \in 1..Len(results) |-> Max2(0, results[i].section_boost)]

extract_retrieval_scores(results) == [i \in 1..Len(results) |-> results[i].score]

\* len(set(sources)) over the file_name of each hit, "unknown" when missing
FileNameOf(r) ==
  IF r.metadata.file_name = Absent THEN "unknown" ELSE r.metadata.file_name

\* counting only the hits that carry a file_name
calculate_source_diversity_named(results) ==
  Cardinality({results[i].metadata.file_name : i \in 1..Len(results)} \ {Absent})

calculate_source_diversity(results) ==
  Cardinality({FileNameOf(results[i]) : i \in 1..Len(results)})

generate_low_confidence_warning(score) ==
  IF score < 1200 THEN "Very Low Confidence"
  ELSE IF score < 2400 THEN "Low Confidence"
  ELSE IF score < 3600 THEN "Moderate Confidence"
  ELSE ""

\* the risk without the floor under the source-diversity bonus
calculate_hallucination_risk_unfloored(context_score, retrieval_count, unique_sources) ==
  LET base_risk == Unit - context_score
      source_diversity_bonus == Min2(1800, unique_sources * 600)
      reduced == base_risk - source_diversity_bonus
      penalised == IF retrieval_count < 2 THEN reduced + 1200
                   ELSE IF retrieval_count < 5 THEN reduced + 600
                   ELSE reduced
      risk_score == Clamp01(penalised)
  IN [risk |-> risk_score,
      level |-> IF risk_score > 4200 THEN "critical"
                ELSE IF risk_score > 3000 THEN "high"
                ELSE IF risk_score > 1800 THEN "medium"
                ELSE "low"]

calculate_hallucination_risk(context_score, retrieval_count, unique_sources) ==
  LET base_risk == Unit - context_score
      source_diversity_bonus == Min2(1800, unique_sources * 600)
      reduced == Max2(0, base_risk - source_diversity_bonus)
      penalised == IF retrieval_count < 2 THEN reduced + 1200
                   ELSE IF retrieval_count < 5 THEN reduced + 600
                   ELSE reduced
      risk_score == Clamp01(penalised)
  IN [risk |-> risk_score,
      level |-> IF risk_score > 4200 THEN "critical"
                ELSE IF risk_score > 3000 THEN "high"
                ELSE IF risk_score > 1800 THEN "medium"
                ELSE "low"]

\* the three conditions joined by AND, as the comment of the method has it
should_ask_all_three(context_score, query_length, retrieval_count) ==
  /\ context_score < LOW_CONFIDENCE_THRESHOLD
  /\ retrieval_count < 3
  /\ query_length < 60

\* asking only when all three conditions hold
should_ask_for_clarification_all(context_score, query_length, retrieval_count) ==
  /\ context_score < LOW_CONFIDENCE_THRESHOLD
  /\ retrieval_count < 3
  /\ query_length < 60

should_ask_for_clarification(context_score, query_length, retrieval_count) ==
  Cardinality({c \in {1, 2, 3} :
     \/ (c = 1 /\ context_score < LOW_CONFIDENCE_THRESHOLD)
     \/ (c = 2 /\ retrieval_count < 3)
     \/ (c = 3 /\ query_length < 60)}) >= 2

generate_hallucination_prevention_prompt(context_score) ==
  IF context_score < 1200 THEN "not enough information"
  ELSE IF context_score < 2400 THEN "limited information"
  ELSE ""

\* ------------------------------------------------------------------------
\* EmbeddingService.generate_answer and the answer backend
\* ------------------------------------------------------------------------
\* the (paper, section, page) the prompt shows for a chunk
SourceOf(r) ==
  IF r.metadata.source = Absent THEN "unknown" ELSE r.metadata.source

CitationOf(r, relevance) ==
  [paper_title |-> SourceOf(r), section |-> r.metadata.section,
   page |-> r.metadata.page, relevance_score |-> relevance]

\* a citation of content that is in no paper of the index
GhostCitation ==
  [paper_title |-> "ghost.pdf", section |-> <<"R","e","s","u","l","t","s">>,
   page |-> 7, relevance_score |-> 90]

\* what the answer backend may do with one prompt: raise; return text that
\* is not JSON; return JSON that is no object; return a JSON object, given
\* here as the dict json.loads makes of it (a record of the keys present)
AnswerBackendOutcomes(chunks) ==
  LET first == chunks[1]
      file1 == FileNameOf(first)
  IN
  { [kind |-> "raise"],
    [kind |-> "not_json"],
    [kind |-> "json_string"],
    [kind |-> "json_object",
     obj |-> [answer |-> "answer text", citations |-> <<CitationOf(first, 95)>>,
              sources_used |-> <<file1>>, confidence |-> 90,
              found_relevant_info |-> TRUE]],
    [kind |-> "json_object",
     obj |-> [answer |-> "answer text", citations |-> <<GhostCitation>>,
              sources_used |-> <<file1, "ghost.pdf">>, confidence |-> 90,
              found_relevant_info |-> TRUE]],
    [kind |-> "json_object",
     obj |-> [answer |-> "answer text", citations |-> << >>,
              sources_used |-> <<file1, file1>>, confidence |-> 60]],
    [kind |-> "json_object",
     obj |-> [note |-> "no key of the format"]],
    [kind |-> "json_object",
     obj |-> [answer |-> "answer text",
              citations |-> <<CitationOf(first, 150)>>,
              sources_used |-> <<file1>>, confidence |-> 90]] }

Get(d, key, default) == IF key \in DOMAIN d THEN d[key] ELSE default

\* the orders list(set(...)) may give the file names of the chunks
FileNameOrders(chunks) ==
  LET names == {FileNameOf(chunks[i]) : i \in 1..Len(chunks)}
  IN {s \in [1..Cardinality(names) -> names] : Injective(s)}

\* generate_answer; `order` is the order in which the set of file names is
\* listed
generate_answer(chunks, outcome, order) ==
  IF outcome.kind = "raise" THEN Raised("BackendError")
  ELSE IF outcome.kind = "not_json"
  THEN Returned([answer |-> "raw text", citations |-> << >>,
                 sources_used |-> order, confidence |-> 50,
                 found_relevant_info |-> FALSE])
  ELSE IF outcome.kind # "json_object" THEN Raised("TypeError")
  ELSE LET json_output == outcome.obj
           with_sources ==
             IF "sources_used" \notin DOMAIN json_output
                \/ json_output.sources_used = << >>
             THEN [k \in DOMAIN json_output \cup {"sources_used"} |->
                     IF k = "sources_used" THEN order ELSE json_output[k]]
             ELSE json_output
           with_flag ==
             IF "found_relevant_info" \notin DOMAIN with_sources
             THEN [k \in DOMAIN with_sources \cup {"found_relevant_info"} |->
                     IF k = "found_relevant_info"
                     THEN Get(with_sources, "confidence", 50) > 40
                     ELSE with_sources[k]]
             ELSE with_sources
       IN Returned(with_flag)

\* EmbeddingService.handle_out_of_context_query
handle_out_of_context_query(category) ==
  LET answer == IF category = "casual" THEN "casual response"
                ELSE IF category = "meta" THEN "meta response"
                ELSE "greeting response"
  IN [answer |-> answer, citations |-> << >>, sources_used |-> << >>,
      confidence |-> 100, found_relevant_info |-> TRUE,
      is_out_of_context |-> TRUE]

\* pydantic validation of Citation(**c)
ValidCitation(c) == c.relevance_score >= 0 /\ c.relevance_score <= 100

\* pydantic validation of the QueryResponse fields the backend supplies
ValidResponseFields(confidence) == confidence >= 0 /\ confidence <= 100

\* ------------------------------------------------------------------------
\* RAGPipeline.query
\* ------------------------------------------------------------------------
\* the query texts of the model

QueryHello ==
  <<"h","e","l","l","o">>
QueryHiThere ==
  <<"h","i"," ","t","h","e","r","e">>
QueryMethodology ==
  <<"w","h","a","t"," ","i","s"," ","t","h","e"," ","m","e","t","h","o","d","o","l","o","g","y">>
QuerySummarize ==
  <<"s","u","m","m","a","r","i","z","e"," ","a","l","l"," ","p","a","p","e","r","s">>
QueryGibberish ==
  <<"a","s","d","k","j">>
QueryWhichMethod ==
  <<"w","h","i","c","h"," ","m","e","t","h","o","d"," ","i","s"," ","u","s","e","d"," ","i","n"," ","t","h","i","s"," ","p","a","p","e","r">>
QueryExplain ==
  <<"e","x","p","l","a","i","n"," ","t","h","e"," ","m","e","t","h","o","d","o","l","o","g","y">>
QueryLong ==
  <<"w","h","a","t"," ","o","p","t","i","m","i","z","e","r"," ","a","n","d"," ","l","e","a","r","n","i","n","g"," ","r","a","t","e"," ","s","c","h","e","d","u","l","e"," ","d","o"," ","t","h","e"," ","a","u","t","h","o","r","s"," ","u","s","e"," ","f","o","r"," ","t","r","a","i","n","i","n","g">>

QueryThanks ==
  <<"t","h","a","n","k","s">>

Queries ==
  {QueryHello, QueryHiThere, QueryMethodology, QuerySummarize, QueryGibberish,
   QueryWhichMethod, QueryExplain, QueryLong, QueryThanks}

\* line 134: the cap on the chunks of a global query
GlobalLimitCap == 20

\* a global query asking for twice its limit whatever the limit
global_limit_uncapped(k) == k * 2

\* limit=min(limit * 2, 20)
global_limit(k) == Min2(k * 2, GlobalLimitCap)

\* the limits of the model: the small ones, and one whose double is over the
\* cap
Limits == (1..MaxLimit) \cup {GlobalLimitCap \div 2 + 1}

\* paper_filter: {} is "no filter" (None or an empty list)
Filters == {{}, {"p2.pdf"}}

\* the paper ids update_paper_stats may be called with
StatIds == PaperNames \cup {"unknown", "ghost.pdf"}

NoValue == [none |-> TRUE]

VARIABLES
  query_text,          \* argument of query()
  paper_filter,        \* argument of query(), reassigned on the section path
  limit,               \* argument of query()
  index_points,        \* the points of the vector index
  paper_stats,         \* the paper_stats collection
  pc,                  \* the position of the coroutine
  scope_backend,       \* local of classify(): what the scope backend did
  answer_backend,      \* local of generate_answer(): what the backend did
  llm_classification,  \* local of query()
  detected_section,    \* local of query()
  results,             \* local of query(): the retrieved hits
  assessment,          \* locals of steps 4 and 5 of query()
  response,            \* local of query(): the assembled QueryResponse
  stats_i,             \* the position of the loop over sources_used
  returned,            \* what the caller got
  outcome,             \* how the call ended
  scope_calls,         \* calls of the scope backend
  search_log,          \* calls of the vector index
  answer_calls,        \* calls of the answer backend
  stats_log,           \* calls of update_paper_stats
  call,                \* one call of a function of the services: its arguments
  value,               \* what that call returned
  papers,              \* the ids of the papers collection
  chunks,              \* the chunks collection
  parked,              \* the locals of the query() that is not running
  uuids                \* the uploads that drew vector ids so far

vars ==
  <<query_text, paper_filter, limit, index_points, paper_stats, pc,
    scope_backend, answer_backend, llm_classification, detected_section, results, assessment, response,
    stats_i, returned, outcome, scope_calls, search_log, answer_calls,
    stats_log, call, value, papers, chunks, parked, uuids>>

\* what one query() running alone never touches
apart == <<call, value, papers, chunks, parked, uuids>>

inputs == <<query_text, limit, index_points>>
backends == <<scope_backend, answer_backend>>
logs == <<scope_calls, search_log, answer_calls, stats_log>>

Init ==
  /\ query_text \in Queries
  /\ paper_filter \in Filters
  /\ limit \in Limits
  /\ \E n \in 0..MaxChunks : index_points = {AllChunks[i] : i \in 1..n}
  /\ paper_stats = [p \in StatIds |-> [total_queries |-> 0, total_citations |-> 0]]
  /\ pc = "classify"
  /\ scope_backend = NoValue
  /\ answer_backend = NoValue
  /\ llm_classification = NoValue
  /\ detected_section = None
  /\ results = << >>
  /\ assessment = NoValue
  /\ response = NoValue
  /\ stats_i = 0
  /\ returned = NoValue
  /\ outcome = "running"
  /\ scope_calls = 0
  /\ search_log = << >>
  /\ answer_calls = 0
  /\ stats_log = << >>
  /\ call = NoValue
  /\ value = NoValue
  /\ papers = get_papers(index_points)
  /\ chunks = {[paper_id |-> PaperOf(c), vector_id |-> c.id] : c \in index_points}
  /\ parked = NoValue
  /\ uuids = 0

\* classify() calling the backend a second time when the first call raised
CallScopeBackend_retrying ==
  /\ pc = "classify"
  /\ scope_backend' \in ScopeBackendOutcomes
  /\ scope_calls' = IF scope_backend'.kind = "raise" THEN scope_calls + 2
                    ELSE scope_calls + 1
  /\ pc' = "classified"
  /\ UNCHANGED <<apart, inputs, paper_filter, paper_stats, answer_backend,
                 llm_classification, detected_section, results, assessment,
                 response, stats_i, returned, outcome, search_log,
                 answer_calls, stats_log>>

\* step 1: classify() sends the prompt; the backend answers or raises
CallScopeBackend ==
  /\ pc = "classify"
  /\ scope_backend' \in ScopeBackendOutcomes
  /\ scope_calls' = scope_calls + 1
  /\ pc' = "classified"
  /\ UNCHANGED <<apart, inputs, paper_filter, paper_stats, answer_backend,
                 llm_classification, detected_section, results, assessment,
                 response, stats_i, returned, outcome, search_log,
                 answer_calls, stats_log>>

\* line 103: an out-of-context query is answered at once
after_classify_always_retrieve(classification) == "retrieve"

after_classify(classification) ==
  IF classification.scope = SCOPE_OUT_OF_CONTEXT
  THEN "out_of_context" ELSE "retrieve"

\* step 1: classify() returns, and query() branches on the scope
Classify ==
  /\ pc = "classified"
  /\ LET r == classify(query_text, scope_backend) IN
     IF r.raised
     THEN /\ pc' = "failed" /\ outcome' = "failed"
          /\ UNCHANGED llm_classification
     ELSE /\ llm_classification' = r.value
          /\ pc' = after_classify(r.value)
          /\ UNCHANGED outcome
  /\ scope_backend' = NoValue
  /\ UNCHANGED <<apart, inputs, paper_filter, paper_stats, answer_backend,
                 detected_section, results, assessment, response, stats_i,
                 returned, logs>>

\* step 1B: the canned response
OutOfContextResponse ==
  /\ pc = "out_of_context"
  /\ LET answer_response == handle_out_of_context_query("greeting") IN
     response' = [answer |-> answer_response.answer,
                  citations |-> << >>,
                  sources_used |-> << >>,
                  confidence |-> 100,
                  context_score |-> Unit,
                  context_level |-> "high",
                  query_type |-> "out_of_context",
                  detected_section |-> None,
                  is_out_of_context |-> TRUE,
                  clarification_needed |-> FALSE,
                  clarification_prompt |-> Absent,
                  warning_message |-> Absent,
                  retrieval_count |-> 0]
  /\ returned' = response'
  /\ outcome' = "out_of_context"
  /\ pc' = "done"
  /\ UNCHANGED <<apart, inputs, backends, paper_filter, paper_stats, llm_classification,
                 detected_section, results, assessment, stats_i, logs>>

\* what one search of the index may come to
IndexAnswers(filter, k) ==
  {[kind |-> "raise", hits |-> << >>]} \cup
  {[kind |-> "hits", hits |-> h] : h \in QueryPointsAnswers(index_points, filter, k)}

SearchCall(text, filter, k, answer) ==
  [text |-> text, filter |-> filter, limit |-> k,
   raised |-> (answer.kind = "raise"), hits |-> answer.hits]

\* step 2, global scope
RetrieveGlobal ==
  /\ pc = "retrieve"
  /\ llm_classification.is_global
  /\ LET k == global_limit(limit) IN
     \E answer \in IndexAnswers(paper_filter, k) :
       /\ results' = search_similar(answer)
       /\ search_log' = Append(search_log,
                               SearchCall(query_text, paper_filter, k, answer))
  /\ detected_section' = None
  /\ pc' = "score"
  /\ UNCHANGED <<apart, inputs, backends, paper_filter, paper_stats, llm_classification,
                 assessment, response, stats_i, returned, outcome,
                 scope_calls, answer_calls, stats_log>>

\* step 2, local scope with a section detected by the keyword classifier
RetrieveSection ==
  /\ pc = "retrieve"
  /\ ~llm_classification.is_global
  /\ LET section == keyword_classify(query_text).detected_section
         filter == IF paper_filter = {} THEN papers ELSE paper_filter
     IN
     /\ section # None
     /\ detected_section' = section
     /\ paper_filter' = filter
     /\ \E answer \in IndexAnswers(filter, limit * 2) :
          /\ results' = Truncate(filter_by_section(search_similar(answer), section),
                                 limit)
          /\ search_log' = Append(search_log,
               SearchCall(section_query(query_text, section), filter, limit * 2,
                          answer))
  /\ pc' = "score"
  /\ UNCHANGED <<apart, inputs, backends, paper_stats, llm_classification, assessment, response,
                 stats_i, returned, outcome, scope_calls, answer_calls,
                 stats_log>>

\* step 2, local scope without a detected section
RetrievePlain ==
  /\ pc = "retrieve"
  /\ ~llm_classification.is_global
  /\ keyword_classify(query_text).detected_section = None
  /\ detected_section' = None
  /\ \E answer \in IndexAnswers(paper_filter, limit) :
       /\ results' = search_similar(answer)
       /\ search_log' = Append(search_log,
                               SearchCall(query_text, paper_filter, limit, answer))
  /\ pc' = "score"
  /\ UNCHANGED <<apart, inputs, backends, paper_filter, paper_stats, llm_classification,
                 assessment, response, stats_i, returned, outcome,
                 scope_calls, answer_calls, stats_log>>

\* step 2: the embedding model (every path) or get_papers (section path
\* without a filter) raises, and nothing in query() catches it
RetrieveRaises ==
  /\ pc = "retrieve"
  /\ outcome' = "failed"
  /\ pc' = "failed"
  /\ UNCHANGED <<apart, inputs, backends, paper_filter, paper_stats, llm_classification,
                 detected_section, results, assessment, response, stats_i,
                 returned, logs>>

\* steps 4 and 5: the context score and the low-confidence handling
Assess(hits, query) ==
  LET retrieval_count == Len(hits)
      retrieval_scores == extract_retrieval_scores(hits)
      source_diversity == calculate_source_diversity(hits)
      cs == calculate_context_score(
              retrieval_scores,
              Min2(Unit, (Len(retrieval_scores) * Unit) \div 5),
              source_diversity)
      low == is_low_confidence(cs.score)
      ask == low /\ should_ask_for_clarification(cs.score, Len(query), retrieval_count)
  IN [retrieval_count |-> retrieval_count,
      source_diversity |-> source_diversity,
      context_score |-> cs.score,
      confidence_level |-> cs.level,
      clarification_needed |-> ask,
      clarification_prompt |-> IF ask THEN "I found limited information" ELSE Absent,
      warning_message |-> IF low THEN generate_low_confidence_warning(cs.score)
                          ELSE Absent]

query_type_str == IF llm_classification.is_global THEN "global" ELSE "local"

\* line 214: if not results
no_results_never(hits) == FALSE

no_results(hits) == hits = << >>

\* lines 172-212 with hits: on to the answer backend
Score ==
  /\ pc = "score"
  /\ ~no_results(results)
  /\ assessment' = Assess(results, query_text)
  /\ pc' = "ground"
  /\ UNCHANGED <<apart, inputs, backends, paper_filter, paper_stats, llm_classification,
                 detected_section, results, response, stats_i, returned,
                 outcome, logs>>

\* lines 172-231 without hits: the early return
EarlyEmptyResponse ==
  /\ pc = "score"
  /\ no_results(results)
  /\ assessment' = Assess(results, query_text)
  /\ response' = [answer |-> IF assessment'.clarification_prompt # Absent
                             THEN assessment'.clarification_prompt
                             ELSE "I couldn't find relevant information",
                  citations |-> << >>,
                  sources_used |-> << >>,
                  confidence |-> 0,
                  context_score |-> 0,
                  context_level |-> "very_low",
                  query_type |-> query_type_str,
                  detected_section |-> None,
                  is_out_of_context |-> FALSE,
                  clarification_needed |-> TRUE,
                  clarification_prompt |-> assessment'.clarification_prompt,
                  warning_message |-> "No relevant information found in papers.",
                  retrieval_count |-> 0]
  /\ returned' = response'
  /\ outcome' = "empty"
  /\ pc' = "done"
  /\ UNCHANGED <<apart, inputs, backends, paper_filter, paper_stats, llm_classification,
                 detected_section, results, stats_i, logs>>

\* step 6 without the risk check
WarningWithoutRisk(a) == a.warning_message

\* the warning of step 6
\* the message of the risk check taking the place of an earlier warning
WarningAfterRisk_last_wins(a) ==
  LET risk == calculate_hallucination_risk(a.context_score, a.retrieval_count,
                                           a.source_diversity).risk
      hallucination_warning == generate_hallucination_prevention_prompt(a.context_score)
  IN IF risk > 3600 /\ hallucination_warning # ""
     THEN hallucination_warning
     ELSE a.warning_message

WarningAfterRisk(a) ==
  LET risk == calculate_hallucination_risk(a.context_score, a.retrieval_count,
                                           a.source_diversity).risk
      hallucination_warning == generate_hallucination_prevention_prompt(a.context_score)
  IN IF risk > 3600 /\ hallucination_warning # ""
        /\ (a.warning_message = Absent \/ a.warning_message = "")
     THEN hallucination_warning
     ELSE a.warning_message

\* step 7: the QueryResponse made of the grounder's dict
BuildResponse(json_response, a) ==
  [answer |-> Get(json_response, "answer", ""),
   citations |-> Get(json_response, "citations", << >>),
   sources_used |-> Get(json_response, "sources_used", << >>),
   confidence |-> Get(json_response, "confidence", 0),
   context_score |-> a.context_score,
   context_level |-> a.confidence_level,
   query_type |-> query_type_str,
   detected_section |-> detected_section,
   is_out_of_context |-> FALSE,
   clarification_needed |-> a.clarification_needed,
   clarification_prompt |-> a.clarification_prompt,
   warning_message |-> WarningAfterRisk(a),
   retrieval_count |-> a.retrieval_count]

\* step 6: generate_answer() sends the prompt; the backend answers or
\* raises
CallAnswerBackend ==
  /\ pc = "ground"
  /\ answer_backend' \in AnswerBackendOutcomes(results)
  /\ answer_calls' = answer_calls + 1
  /\ pc' = "grounding"
  /\ UNCHANGED <<apart, inputs, paper_filter, paper_stats, scope_backend,
                 llm_classification, detected_section, results, assessment,
                 response, stats_i, returned, outcome, scope_calls,
                 search_log, stats_log>>

\* steps 6 and 7: generate_answer() returns, the risk, the response; an
\* exception of the backend, of generate_answer or of the validation of the
\* response leaves query()
Ground ==
  /\ pc = "grounding"
  /\ \E order \in FileNameOrders(results) :
       LET r == generate_answer(results, answer_backend, order) IN
       IF r.raised
       THEN /\ pc' = "failed" /\ outcome' = "failed"
            /\ UNCHANGED <<response, stats_i>>
       ELSE LET built == BuildResponse(r.value, assessment) IN
            IF /\ \A i \in 1..Len(built.citations) : ValidCitation(built.citations[i])
               /\ ValidResponseFields(built.confidence)
            THEN /\ response' = built
                 /\ stats_i' = 1
                 /\ pc' = "stats"
                 /\ UNCHANGED outcome
            ELSE /\ pc' = "failed" /\ outcome' = "failed"
                 /\ UNCHANGED <<response, stats_i>>
  /\ answer_backend' = NoValue
  /\ UNCHANGED <<apart, inputs, paper_filter, paper_stats, scope_backend,
                 llm_classification, detected_section, results, assessment,
                 returned, logs>>

\* MongoDBService.update_paper_stats
update_paper_stats(stats, paper_id, citations) ==
  [stats EXCEPT ![paper_id] =
     [total_queries |-> @.total_queries + 1,
      total_citations |-> @.total_citations + Len(citations)]]

\* [c for c in citations if c.paper_title == paper_file]
CitationsOf(citations, paper_file) ==
  SelectSeq(citations, LAMBDA c : c.paper_title = paper_file)

\* step 8: one turn of the loop over sources_used; the update may raise,
\* which is logged
UpdatePaperStats ==
  /\ pc = "stats"
  /\ stats_i <= Len(response.sources_used)
  /\ LET paper_file == response.sources_used[stats_i] IN
     \E ok \in BOOLEAN :
       /\ stats_log' = Append(stats_log, [paper_id |-> paper_file, ok |-> ok])
       /\ paper_stats' =
            IF ok THEN update_paper_stats(paper_stats, paper_file,
                                          CitationsOf(response.citations, paper_file))
            ELSE paper_stats
  /\ stats_i' = stats_i + 1
  /\ UNCHANGED <<apart, inputs, backends, paper_filter, pc, llm_classification, detected_section,
                 results, assessment, response, returned, outcome,
                 scope_calls, search_log, answer_calls>>

\* line 290
ReturnResponse ==
  /\ pc = "stats"
  /\ stats_i > Len(response.sources_used)
  /\ returned' = response
  /\ outcome' = "grounded"
  /\ pc' = "done"
  /\ UNCHANGED <<apart, inputs, backends, paper_filter, paper_stats, llm_classification,
                 detected_section, results, assessment, response, stats_i, logs>>

Next ==
  \/ CallScopeBackend
  \/ Classify
  \/ OutOfContextResponse
  \/ RetrieveGlobal
  \/ RetrieveSection
  \/ RetrievePlain
  \/ RetrieveRaises
  \/ Score
  \/ EarlyEmptyResponse
  \/ CallAnswerBackend
  \/ Ground
  \/ UpdatePaperStats
  \/ ReturnResponse

Spec == Init /\ [][Next]_vars

\* ------------------------------------------------------------------------
\* Properties
\* ------------------------------------------------------------------------
Classified == "scope" \in DOMAIN llm_classification

\* a QueryResponse was assembled from the grounder's answer
GroundedResponse == pc = "stats" \/ (pc = "done" /\ outcome = "grounded")

InitialStats == [p \in StatIds |-> [total_queries |-> 0, total_citations |-> 0]]

SetOf(s) == {s[i] : i \in 1..Len(s)}

\* C1: a query the scope classifier labels OUT_OF_CONTEXT gets a terminal
\* response with confidence 1.0, context_score 1.0, retrieval_count 0, no
\* citations and no sources, and the query makes no vector search, no call
\* of the answer backend and no paper-stats update.
C1_OutOfContextIsTerminal ==
  (Classified /\ llm_classification.scope = SCOPE_OUT_OF_CONTEXT) =>
     /\ pc \in {"out_of_context", "done"}
     /\ search_log = << >>
     /\ answer_calls = 0
     /\ stats_log = << >>
     /\ paper_stats = InitialStats
     /\ pc = "done" =>
          /\ outcome = "out_of_context"
          /\ returned.confidence = 100
          /\ returned.context_score = Unit
          /\ returned.retrieval_count = 0
          /\ returned.citations = << >>
          /\ returned.sources_used = << >>

C1_Witness ==
  /\ pc = "done"
  /\ outcome = "out_of_context"
  /\ query_text = QueryHello
  /\ returned.confidence = 100

\* C2: a query that is not out-of-context and whose retrieval returns no
\* hit gets the terminal empty response (context_score 0.0, level very_low,
\* clarification_needed, retrieval_count 0, no citations), and the answer
\* backend is never called for it.
C2_EmptyRetrievalIsTerminal ==
  (/\ Classified
   /\ llm_classification.scope # SCOPE_OUT_OF_CONTEXT
   /\ Len(search_log) = 1
   /\ results = << >>) =>
     /\ pc \in {"score", "done"}
     /\ answer_calls = 0
     /\ pc = "done" =>
          /\ outcome = "empty"
          /\ returned.context_score = 0
          /\ returned.context_level = "very_low"
          /\ returned.clarification_needed
          /\ returned.retrieval_count = 0
          /\ returned.citations = << >>

C2_Witness ==
  /\ pc = "done"
  /\ outcome = "empty"
  /\ query_text = QueryGibberish
  /\ ~search_log[1].raised
  /\ returned.clarification_needed

\* C3 (as claimed): every citation of a grounded response has the (paper,
\* section, page) of one of the hits passed to the grounding call.
CitesHit(c, r) ==
  /\ c.paper_title \in {r.metadata.source, r.metadata.file_name}
  /\ c.section = r.metadata.section
  /\ c.page = r.metadata.page

C3_CitationsAmongHits ==
  GroundedResponse =>
    \A i \in 1..Len(response.citations) :
       \E j \in 1..Len(results) : CitesHit(response.citations[i], results[j])

TwoOfThree(a, b, c) == (a /\ b) \/ (a /\ c) \/ (b /\ c)

RiskOf(resp) ==
  calculate_hallucination_risk(resp.context_score, resp.retrieval_count,
                               calculate_source_diversity(results)).risk

HasWarning(resp) == resp.warning_message # Absent /\ resp.warning_message # ""

\* C5 (as claimed): a grounded response whose hallucination risk is greater
\* than 0.6 carries a non-empty warning_message.
C5_HighRiskWarned ==
  (GroundedResponse /\ RiskOf(response) > 3600) => HasWarning(response)

\* C5 (amended): a grounded response whose hallucination risk is greater
\* than 0.6 and whose context_score is below 0.4 carries a non-empty
\* warning_message.
C5_HighRiskLowScoreWarned ==
  (/\ GroundedResponse
   /\ RiskOf(response) > 3600
   /\ response.context_score < 2400) => HasWarning(response)

C5_Witness ==
  /\ pc = "done"
  /\ outcome = "grounded"
  /\ RiskOf(returned) > 3600
  /\ returned.context_score >= 1800
  /\ returned.context_score < 2400
  /\ returned.warning_message = "limited information"

\* C6: classify never lets an exception out: whatever the backend does
\* (raises, answers garbage, answers in the format), the call returns a
\* classification whose scope is GLOBAL, LOCAL or OUT_OF_CONTEXT, so no
\* query fails in the scope classification.
C6_ClassifyNeverFails ==
  pc \notin {"classify", "classified"} =>
    (Classified /\ llm_classification.scope \in QueryScope)

\* the backend raised and the keyword fallback classified the query LOCAL
C6_Witness ==
  /\ pc = "retrieve"
  /\ Classified
  /\ llm_classification.scope = SCOPE_LOCAL
  /\ llm_classification.confidence = 70

\* C7 (as claimed): when the backend answers garbage, classify returns what
\* the keyword fallback returns for the query (OUT_OF_CONTEXT for "hi
\* there").
C7_GarbageUsesFallback ==
  [][(/\ pc = "classified"
      /\ scope_backend.kind = "text"
      /\ scope_backend.text = ScopeTextGarbage) =>
        (/\ pc' # "failed"
         /\ llm_classification' = fallback_classification(query_text))]_vars

\* C8 (as claimed): a query whose vector search failed ends in a pipeline
\* failure and returns no QueryResponse.
C8_SearchFailurePropagates ==
  (/\ pc \in {"done", "failed"}
   /\ search_log # << >>
   /\ search_log[1].raised) =>
     (outcome = "failed" /\ "answer" \notin DOMAIN returned)

\* the answer of the backend is the object of the format
WellShapedAnswer(b) ==
  /\ b.kind = "json_object"
  /\ {"answer", "citations", "sources_used", "confidence"} \subseteq DOMAIN b.obj
  /\ \A i \in 1..Len(b.obj.citations) : ValidCitation(b.obj.citations[i])
  /\ ValidResponseFields(b.obj.confidence)

\* C9 (as claimed): for every malformed answer of the backend the query
\* still gets a response, with no citations, confidence 0.5 and the file
\* names of all hits as sources_used.
C9_MalformedAnswerDegrades ==
  [][(/\ pc = "grounding"
      /\ answer_backend.kind # "raise"
      /\ ~WellShapedAnswer(answer_backend)) =>
        (/\ pc' = "stats"
         /\ response'.citations = << >>
         /\ response'.confidence = 50
         /\ SetOf(response'.sources_used)
              = {FileNameOf(results[i]) : i \in 1..Len(results)})]_vars

Attempts(paper_file) ==
  Cardinality({i \in 1..Len(stats_log) : stats_log[i].paper_id = paper_file})

\* C10 (as claimed): after a grounded response a stats update is attempted
\* exactly once for every paper of sources_used, whether or not an attempt
\* fails, and the caller gets the response as it was assembled.
C10_OneStatsAttemptPerPaper ==
  (pc = "done" /\ outcome = "grounded") =>
    /\ \A p \in SetOf(response.sources_used) : Attempts(p) = 1
    /\ \A i \in 1..Len(stats_log) : stats_log[i].paper_id \in SetOf(response.sources_used)
    /\ returned = response

\* ------------------------------------------------------------------------
\* the order of the steps of one query

Terminated == pc \in {"done", "failed"}

\* the calls one execution has made so far, and how it ended
StepOrder ==
  /\ scope_calls <= 1
  /\ Len(search_log) <= 1
  /\ answer_calls <= 1
  /\ search_log # << >> => (scope_calls = 1 /\ Classified)
  /\ answer_calls = 1 =>
       (Len(search_log) = 1 /\ ~search_log[1].raised /\ results # << >>)
  /\ stats_log # << >> => answer_calls = 1
  /\ Terminated <=> outcome \in {"out_of_context", "empty", "grounded", "failed"}
  /\ Terminated => scope_calls = 1
  /\ outcome = "out_of_context" => (search_log = << >> /\ answer_calls = 0)
  /\ outcome = "empty" => (Len(search_log) = 1 /\ answer_calls = 0)
  /\ outcome = "grounded" => (Len(search_log) = 1 /\ answer_calls = 1)
  /\ (pc = "done") <=> (outcome \in {"out_of_context", "empty", "grounded"})

\* the positions of query(), in the order of the code
Positions ==
  <<"classify", "classified", "out_of_context", "retrieve", "score", "ground",
    "grounding", "stats", "done", "failed">>

PositionOf(p) == CHOOSE i \in 1..Len(Positions) : Positions[i] = p

\* a call that has not ended can take a step: a backend that was called
\* answers or raises, and the coroutine is resumed (at "classified" the
\* step is Classify, whose only condition is that the backend has answered)
CanGoOn ==
  /\ pc \in {Positions[i] : i \in 1..Len(Positions)}
  /\ pc = "classify" => ENABLED CallScopeBackend
  /\ pc = "classified" => scope_backend \in ScopeBackendOutcomes
  /\ pc = "out_of_context" => ENABLED OutOfContextResponse
  /\ pc = "retrieve" => ENABLED RetrieveRaises
  /\ pc = "score" => ENABLED (EarlyEmptyResponse \/ Score)
  /\ pc = "ground" => ENABLED CallAnswerBackend
  /\ pc = "grounding" => ENABLED Ground
  /\ pc = "stats" => ENABLED (ReturnResponse \/ UpdatePaperStats)

\* every step moves to a later position, or to the next turn of the loop
\* over sources_used: no position is taken twice
GoesForward ==
  \/ PositionOf(pc') > PositionOf(pc)
  \/ pc = "stats" /\ pc' = "stats" /\ stats_i' = stats_i + 1

\* C11: every execution makes exactly one scope-classification call, and it
\* before any search; at most one search; at most one answer-backend call,
\* and it only after a search that returned a hit; and it ends, in exactly
\* one of the out-of-context response, the empty response, the grounded
\* response or a failure
C11_OneWayThrough ==
  /\ [](StepOrder /\ CanGoOn)
  /\ [][GoesForward]_vars

C11_Witness ==
  /\ pc = "done" /\ outcome = "grounded"
  /\ scope_calls = 1 /\ Len(search_log) = 1 /\ answer_calls = 1
  /\ Len(stats_log) = 2

\* ------------------------------------------------------------------------
\* one good hit of the section asked for

\* the local query "what is the methodology" whose retrieval came to the
\* one chunk of section "Methodology", found with similarity 0.85
OneMethodologyHit ==
  /\ query_text = QueryMethodology
  /\ Classified /\ llm_classification.scope = SCOPE_LOCAL
  /\ index_points = {AllChunks[1]}
  /\ detected_section = <<"m","e","t","h","o","d","o","l","o","g","y">>
  /\ results = filter_by_section(<<Hit(AllChunks[1], 85)>>, detected_section)

\* C12: the response to "what is the methodology", local scope, with the
\* single hit of section Methodology and score 0.85, has context_score >= 0.7,
\* level high, no clarification and no warning
C12_GoodHitHighConfidence ==
  (pc = "done" /\ outcome = "grounded" /\ OneMethodologyHit) =>
    /\ returned.context_score >= HIGH_CONFIDENCE_THRESHOLD
    /\ returned.context_level = "high"
    /\ ~returned.clarification_needed
    /\ returned.clarification_prompt = Absent
    /\ returned.warning_message = Absent
    /\ returned.retrieval_count = 1

C12_Witness ==
  /\ pc = "done" /\ outcome = "grounded" /\ OneMethodologyHit
  /\ returned.context_score = 94 * PerHundredth
  /\ returned.detected_section = detected_section

\* ------------------------------------------------------------------------
\* One call of a function of the services
\* ------------------------------------------------------------------------
\* no query() is running
Idle ==
  /\ query_text = QueryHello /\ paper_filter = {} /\ limit = 1
  /\ index_points = {} /\ paper_stats = InitialStats /\ pc = "idle"
  /\ scope_backend = NoValue /\ answer_backend = NoValue
  /\ llm_classification = NoValue /\ detected_section = None
  /\ results = << >> /\ assessment = NoValue /\ response = NoValue
  /\ stats_i = 0 /\ returned = NoValue /\ outcome = "running"
  /\ scope_calls = 0 /\ search_log = << >> /\ answer_calls = 0
  /\ stats_log = << >>

pipeline ==
  <<query_text, paper_filter, limit, index_points, paper_stats, pc,
    scope_backend, answer_backend, llm_classification, detected_section,
    results, assessment, response, stats_i, returned, outcome, scope_calls,
    search_log, answer_calls, stats_log>>

\* the sections _filter_by_section has keywords for
TargetSections == {SECTION_KEYWORDS[i].name : i \in 1..Len(SECTION_KEYWORDS)}

\* the similarity scores of the candidates of one re-ranking, in hundredths
BaseScores == {0, 50, 75, 76, 99, 100}

\* a chunk whose section is the one asked for
SectionChunk(target) ==
  [id |-> 1, file_name |-> "p1.pdf", source |-> "p1.pdf", section |-> target,
   page |-> 1, text |-> <<"l","o","r","e","m"," ","i","p","s","u","m">>]

\* chunks of another section: one with no keyword of any section in its
\* text, one with keywords of the methodology section
OtherChunks ==
  {[id |-> 2, file_name |-> "p1.pdf", source |-> "p1.pdf",
    section |-> <<"A","p","p","e","n","d","i","x">>, page |-> 2, text |-> <<"l","o","r","e","m"," ","i","p","s","u","m">>],
   [id |-> 2, file_name |-> "p1.pdf", source |-> "p1.pdf",
    section |-> <<"A","p","p","e","n","d","i","x">>, page |-> 2, text |-> AllChunks[4].text]}

\* the calls of _filter_by_section with two candidates, in either order
FilterCalls ==
  {[op |-> "filter_by_section", results |-> r, target_section |-> t] :
     r \in UNION {{<<Hit(SectionChunk(t2), s1), Hit(o, s2)>>,
                   <<Hit(o, s2), Hit(SectionChunk(t2), s1)>>} :
                  t2 \in TargetSections, o \in OtherChunks,
                  s1 \in BaseScores, s2 \in BaseScores},
     t \in TargetSections}

\* the scores calculate_context_score is called with, in hundredths: scores
\* of the index, and values a caller could pass from outside [0, 1]
TrackerScores == {-50, 0, 20, 50, 85, 100, 150}

RECURSIVE SeqsUpTo(_, _)
SeqsUpTo(S, n) ==
  IF n = 0 THEN {<< >>}
  ELSE LET shorter == SeqsUpTo(S, n - 1)
       IN shorter \cup {Append(s, x) : s \in {t \in shorter : Len(t) = n - 1},
                                       x \in S}

\* query_coverage is min(1.0, n / 5.0)
Coverages == {(k * Unit) \div 5 : k \in 0..5}

ScoreCalls ==
  {[op |-> "calculate_context_score", retrieval_scores |-> s,
    query_coverage |-> c, source_diversity |-> d] :
     s \in SeqsUpTo(TrackerScores, MaxScores), c \in Coverages, d \in 0..3}

\* context scores in steps of 0.01, and one value on each side of [0, 1]
RiskCalls ==
  {[op |-> "calculate_hallucination_risk", context_score |-> cs,
    retrieval_count |-> n, unique_sources |-> u] :
     cs \in {k * PerHundredth : k \in 0..100} \cup {-10 * PerHundredth, 110 * PerHundredth},
     n \in 0..6, u \in 0..4}

\* texts for the two classifiers: upper case, a keyword inside a longer
\* word, and keywords of several tables or groups in one text
QueryHelloUpper ==
  <<"H","E","L","L","O">>
QueryMixedCase ==
  <<"W","h","a","t"," ","I","s"," ","T","h","e"," ","M","E","T","H","O","D","O","L","O","G","Y">>
QueryThisPaper ==
  <<"t","h","i","s"," ","p","a","p","e","r">>
QueryHelloSummarize ==
  <<"h","e","l","l","o",","," ","s","u","m","m","a","r","i","z","e"," ","t","h","e"," ","r","e","s","u","l","t","s">>
QuerySummarizeResults ==
  <<"S","u","m","m","a","r","i","z","e"," ","t","h","e"," ","r","e","s","u","l","t","s">>
QueryCompareSummarize ==
  <<"c","o","m","p","a","r","e"," ","a","n","d"," ","s","u","m","m","a","r","i","z","e">>
QueryListDifferent ==
  <<"l","i","s","t"," ","t","h","e"," ","d","i","f","f","e","r","e","n","t"," ","p","o","i","n","t","s">>
QueryThankOverview ==
  <<"t","h","a","n","k"," ","y","o","u"," ","f","o","r"," ","t","h","e"," ","o","v","e","r","v","i","e","w">>

\* every keyword of the per-section table
SectionKeywords ==
  UNION {{PAPER_SECTIONS[g].keywords[j] : j \in 1..Len(PAPER_SECTIONS[g].keywords)} :
         g \in 1..Len(PAPER_SECTIONS)}

ClassifierQueries ==
  Queries \cup SectionKeywords \cup
  {QueryHelloUpper,
   QueryMixedCase,
   QueryThisPaper,
   QueryHelloSummarize,
   QuerySummarizeResults,
   QueryCompareSummarize,
   QueryListDifferent,
   QueryThankOverview}

\* the calls of QueryClassifier.classify
ClassifyCalls == {[op |-> "classify", query |-> q] : q \in ClassifierQueries}

\* the calls of LLMQueryClassifier._fallback_classification
FallbackCalls ==
  {[op |-> "fallback_classification", query |-> q] : q \in ClassifierQueries}

CallInit ==
  /\ Idle
  /\ call \in FilterCalls \cup ScoreCalls \cup RiskCalls \cup ClassifyCalls
              \cup FallbackCalls
  /\ value = NoValue
  /\ papers = {} /\ chunks = {} /\ parked = NoValue /\ uuids = 0

CallFilterBySection ==
  /\ call.op = "filter_by_section" /\ value = NoValue
  /\ value' = filter_by_section(call.results, call.target_section)
  /\ UNCHANGED <<pipeline, call, papers, chunks, parked, uuids>>

CallCalculateContextScore ==
  /\ call.op = "calculate_context_score" /\ value = NoValue
  /\ value' = calculate_context_score(call.retrieval_scores, call.query_coverage,
                                      call.source_diversity)
  /\ UNCHANGED <<pipeline, call, papers, chunks, parked, uuids>>

CallCalculateHallucinationRisk ==
  /\ call.op = "calculate_hallucination_risk" /\ value = NoValue
  /\ value' = calculate_hallucination_risk(call.context_score, call.retrieval_count,
                                           call.unique_sources)
  /\ UNCHANGED <<pipeline, call, papers, chunks, parked, uuids>>

CallClassify ==
  /\ call.op = "classify" /\ value = NoValue
  /\ value' = keyword_classify(call.query)
  /\ UNCHANGED <<pipeline, call, papers, chunks, parked, uuids>>

CallFallbackClassification ==
  /\ call.op = "fallback_classification" /\ value = NoValue
  /\ value' = fallback_classification(call.query)
  /\ UNCHANGED <<pipeline, call, papers, chunks, parked, uuids>>

CallNext ==
  \/ CallFilterBySection
  \/ CallCalculateContextScore
  \/ CallCalculateHallucinationRisk
  \/ CallClassify
  \/ CallFallbackClassification

CallSpec == CallInit /\ [][CallNext]_vars

Called(op) == call # NoValue /\ call.op = op /\ value # NoValue

\* ------------------------------------------------------------------------
\* the section re-ranking

\* where the chunk with this id stands in a list of hits
PlaceOf(hits, id) == CHOOSE i \in 1..Len(hits) : hits[i].metadata.id = id

\* the hit is of another section than the target, of no section the target
\* has as an alias, and its text has no keyword of the target
UnrelatedTo(hit, target) ==
  LET section == Lower(hit.metadata.section)
      aliases == TableGet(section_aliases, target)
      keywords == TableGet(SECTION_KEYWORDS, target)
  IN /\ section # target
     /\ \A i \in 1..Len(aliases) : ~Contains(section, aliases[i])
     /\ \A i \in 1..Len(keywords) : ~Contains(Lower(hit.text), keywords[i])

\* a call with a hit of the target section and an unrelated hit, of one
\* base score
EqualScoreCase ==
  /\ Called("filter_by_section")
  /\ \E i, j \in 1..2 :
       /\ call.results[i].metadata.id = 1 /\ call.results[j].metadata.id = 2
       /\ Lower(call.results[i].metadata.section) = call.target_section
       /\ UnrelatedTo(call.results[j], call.target_section)
       /\ call.results[i].score = call.results[j].score

\* C13: of two candidates with the same base score, the one of the target
\* section is ranked strictly before the unrelated one without keyword hits,
\* whatever their order in the candidate list
C13_ExactSectionFirst ==
  EqualScoreCase => PlaceOf(value, 1) < PlaceOf(value, 2)

\* C13 as amended: the same for every base score below 1.0
C13_ExactSectionFirstBelowOne ==
  (EqualScoreCase /\ call.results[1].score < 100) =>
    /\ PlaceOf(value, 1) < PlaceOf(value, 2)
    /\ value[1].score > value[2].score

C13_Witness ==
  /\ EqualScoreCase
  /\ call.results[1].metadata.id = 2 /\ call.results[1].score = 99
  /\ value[1].metadata.id = 1 /\ value[1].score = 100 /\ value[2].score = 99

\* ------------------------------------------------------------------------
\* the hallucination risk

\* 0.2 for fewer than 2 hits, 0.1 for fewer than 5, else 0
LowCountPenalty(n) ==
  IF n < 2 THEN 20 * PerHundredth ELSE IF n < 5 THEN 10 * PerHundredth ELSE 0

\* min(0.3, 0.1 * unique_sources)
DiversityBonus(u) == Min2(30 * PerHundredth, u * 10 * PerHundredth)

RiskLevelOf(risk) ==
  IF risk > 70 * PerHundredth THEN "critical"
  ELSE IF risk > 50 * PerHundredth THEN "high"
  ELSE IF risk > 30 * PerHundredth THEN "medium"
  ELSE "low"

\* a call with a context score of [0, 1]
RiskCase ==
  /\ Called("calculate_hallucination_risk")
  /\ call.context_score >= 0 /\ call.context_score <= Unit

\* C14: the risk is clamp01((1 - context_score) - min(0.3, 0.1 * unique_sources)
\* + lowCountPenalty), and the level follows the thresholds 0.7, 0.5, 0.3
C14_RiskFormula ==
  RiskCase =>
    /\ value.risk = Clamp01((Unit - call.context_score)
                            - DiversityBonus(call.unique_sources)
                            + LowCountPenalty(call.retrieval_count))
    /\ value.level = RiskLevelOf(value.risk)

\* C14 as amended: the difference is floored at 0 before the penalty is added
C14_RiskFormulaFloored ==
  RiskCase =>
    /\ value.risk = Clamp01(Max2(0, (Unit - call.context_score)
                                    - DiversityBonus(call.unique_sources))
                            + LowCountPenalty(call.retrieval_count))
    /\ value.level = RiskLevelOf(value.risk)

C14_Witness ==
  /\ RiskCase
  /\ call.context_score = 90 * PerHundredth /\ call.unique_sources = 3
  /\ call.retrieval_count = 3
  /\ value.risk = 10 * PerHundredth /\ value.level = "low"

\* ------------------------------------------------------------------------
\* the ranges of the context score and of the risk

\* C15: whatever the arguments, the context score and the risk that are
\* returned lie in [0.0, 1.0]
C15_ScoreAndRiskInUnitRange ==
  /\ Called("calculate_context_score") => (value.score >= 0 /\ value.score <= Unit)
  /\ Called("calculate_hallucination_risk") => (value.risk >= 0 /\ value.risk <= Unit)

\* the mean of the scores is above 1.0 and the score returned is 1.0
C15_Witness ==
  /\ Called("calculate_context_score")
  /\ call.retrieval_scores = <<150, 100>>
  /\ call.source_diversity = 2
  /\ value.score = Unit

\* ------------------------------------------------------------------------
\* the context score is monotone

\* the context score of the call with one score replaced
WithScore(i, s) ==
  calculate_context_score([call.retrieval_scores EXCEPT ![i] = s],
                          call.query_coverage, call.source_diversity).score

\* the context score of the call with another source diversity
WithDiversity(d) ==
  calculate_context_score(call.retrieval_scores, call.query_coverage, d).score

\* C16: raising one retrieval score, the rest fixed, never lowers the context
\* score, and the context score does not fall as the source diversity goes
\* 0, 1, 2
C16_ContextScoreMonotone ==
  Called("calculate_context_score") =>
    /\ \A i \in 1..Len(call.retrieval_scores) :
         \A s \in TrackerScores :
           s >= call.retrieval_scores[i] => WithScore(i, s) >= value.score
    /\ WithDiversity(0) <= WithDiversity(1)
    /\ WithDiversity(1) <= WithDiversity(2)

C16_Witness ==
  /\ Called("calculate_context_score")
  /\ call.retrieval_scores = <<20, 50>> /\ call.source_diversity = 1
  /\ call.query_coverage = 0
  /\ value.score = 25 * PerHundredth
  /\ WithScore(1, 85) > value.score
  /\ WithDiversity(0) < value.score /\ WithDiversity(2) > value.score

\* ------------------------------------------------------------------------
\* the canned response of an out-of-context query

\* the category the keyword classifier gives the query; "greeting" is what
\* handle_out_of_context_query falls back on
CategoryOf(query) ==
  LET found == check_out_of_context(Strip(Lower(query))) IN
  IF ~found.match THEN "greeting"
  ELSE IF found.category = OUT_OF_CONTEXT_KEYWORDS[2].name THEN "casual"
  ELSE IF found.category = OUT_OF_CONTEXT_KEYWORDS[3].name THEN "meta"
  ELSE "greeting"

\* C17: an out-of-context query is answered with the canned response of its
\* own category (greeting, casual or meta)
C17_OwnCategoryResponse ==
  (pc = "done" /\ outcome = "out_of_context") =>
    returned.answer = handle_out_of_context_query(CategoryOf(query_text)).answer

\* ------------------------------------------------------------------------
\* Uploads and deletions of papers
\* ------------------------------------------------------------------------
\* the uploads of one run
MaxUploads == 2

\* uuid4(): the vector id of chunk i of upload n; no two are equal
uuid4(n, i) == 10 * n + i

\* the chunks of an uploaded file, each under a vector id of its own;
\* create_chunks gives file_name and source the name of the file
create_chunks(file_name, n) ==
  {[AllChunks[i] EXCEPT !.id = uuid4(n, i), !.file_name = file_name,
                        !.source = file_name] :
     i \in {j \in 1..Len(AllChunks) : PaperOf(AllChunks[j]) = file_name}}

\* how far an upload gets: store_paper, store_chunks_bulk and store_vectors
\* run in this order and each may raise
UploadStages == <<"store_paper", "store_chunks_bulk", "store_vectors">>
Reached(reached, stage) ==
  \E i, j \in 1..Len(UploadStages) :
    UploadStages[i] = reached /\ UploadStages[j] = stage /\ j <= i

\* no query() is running and no function was called
StoreIdle ==
  /\ query_text = QueryHello /\ paper_filter = {} /\ limit = 1
  /\ pc = "idle"
  /\ scope_backend = NoValue /\ answer_backend = NoValue
  /\ llm_classification = NoValue /\ detected_section = None
  /\ assessment = NoValue /\ response = NoValue
  /\ stats_i = 0 /\ returned = NoValue /\ outcome = "running"
  /\ scope_calls = 0 /\ search_log = << >> /\ answer_calls = 0
  /\ stats_log = << >>
  /\ call = NoValue /\ parked = NoValue

\* what uploads, deletions and searches leave alone
query_locals ==
  <<query_text, paper_filter, limit, pc, scope_backend, answer_backend,
    llm_classification, detected_section, assessment, response, stats_i,
    returned, outcome, scope_calls, search_log, answer_calls, stats_log,
    call, parked>>

StoreInit ==
  /\ StoreIdle
  /\ index_points = {} /\ papers = {} /\ chunks = {}
  /\ paper_stats = InitialStats
  /\ results = << >> /\ value = NoValue /\ uuids = 0

\* POST /papers/upload
upload_paper ==
  \E file_name \in PaperNames, reached \in SetOf(UploadStages) :
    /\ uuids < MaxUploads
    /\ file_name \notin papers
    /\ uuids' = uuids + 1
    /\ papers' = papers \cup {file_name}
    /\ chunks' =
         IF Reached(reached, "store_chunks_bulk")
         THEN chunks \cup {[paper_id |-> file_name, vector_id |-> c.id] :
                             c \in create_chunks(file_name, uuids')}
         ELSE chunks
    /\ index_points' =
         IF Reached(reached, "store_vectors")
         THEN index_points \cup create_chunks(file_name, uuids')
         ELSE index_points
    /\ value' = [op |-> "upload_paper", paper_id |-> file_name,
                 ok |-> (reached = "store_vectors")]
    /\ UNCHANGED <<query_locals, paper_stats, results>>

\* DELETE /papers/{paper_id}: MongoDBService.delete_paper
delete_paper ==
  \E paper_id \in PaperNames :
    /\ papers' = papers \ {paper_id}
    /\ chunks' = {c \in chunks : c.paper_id # paper_id}
    /\ paper_stats' = [paper_stats EXCEPT ![paper_id] = InitialStats[paper_id]]
    /\ value' = [op |-> "delete_paper", paper_id |-> paper_id,
                 ok |-> (paper_id \in papers)]
    /\ UNCHANGED <<query_locals, index_points, results, uuids>>

\* the three retrievals of query()
SearchScopes == {"global", "section", "plain"}

\* the search a query() of this scope makes of the index
search_index ==
  \E scope \in SearchScopes, k \in 1..MaxLimit,
     asked \in {{}} \cup {{p} : p \in PaperNames} :
    LET filter == IF scope = "section" /\ asked = {} THEN papers ELSE asked IN
    \E answer \in IndexAnswers(filter, k) :
      /\ results' = search_similar(answer)
      /\ value' = [op |-> "search_similar", scope |-> scope,
                   paper_filter |-> filter, limit |-> k]
      /\ UNCHANGED <<query_locals, index_points, papers, chunks, paper_stats,
                     uuids>>

StoreNext ==
  \/ upload_paper
  \/ delete_paper
  \/ search_index

StoreSpec == StoreInit /\ [][StoreNext]_vars

\* ------------------------------------------------------------------------
\* a deleted paper

Stored(op) == value # NoValue /\ value.op = op

\* C18: a paper that is not in the document store (deleted, or never
\* uploaded) has no chunk in the chunks collection and no point in the
\* index, no search returns a hit of it, and every point of the index has
\* its chunk in the chunks collection under the same vector id
C18_DeletedPaperIsGone ==
  /\ \A p \in index_points : \E c \in chunks : c.vector_id = p.id
  /\ \A P \in PaperNames \ papers :
       /\ \A c \in chunks : c.paper_id # P
       /\ \A p \in index_points : PaperOf(p) # P
       /\ Stored("search_similar") =>
            \A i \in 1..Len(results) : PaperOf(results[i].metadata) # P

\* ------------------------------------------------------------------------
\* the paper filter of a search

\* file_name or source is one of the names asked for
Admitted(payload, names) == payload.file_name \in names \/ payload.source \in names

\* the hits query() keeps of its search: the section path cuts them to limit
Kept(search) ==
  IF detected_section # None THEN Min2(limit, search.limit) ELSE search.limit

\* C20: the hits of a search with a non-empty paper filter all have their
\* file_name or their source among the names of the filter, and a point that
\* has only one of the two among them is found like any other: as many hits
\* come back as the search asked for, or every such point of the index
C20_FilterAdmitsEitherField ==
  (Len(search_log) = 1 /\ search_log[1].filter # {}) =>
    LET search == search_log[1]
        matching == {c \in index_points : Admitted(c, search.filter)}
    IN
    /\ \A i \in 1..Len(results) : Admitted(results[i].metadata, search.filter)
    /\ ~search.raised =>
         Len(results) = Min2(Kept(search), Cardinality(matching))

C20_Witness ==
  /\ pc = "done" /\ outcome = "grounded"
  /\ Len(search_log) = 1 /\ search_log[1].filter = {"p2.pdf"}
  /\ Cardinality(index_points) >= 2
  /\ Len(results) = 1
  /\ results[1].metadata.file_name = Absent
  /\ results[1].metadata.source = "p2.pdf"

\* ------------------------------------------------------------------------
\* Two executions of query() on one event loop
\* ------------------------------------------------------------------------
\* the frame of a coroutine: the arguments and locals of its query(), the
\* services of its own RAGPipeline, and what the model logs of it
locals ==
  [query_text |-> query_text, paper_filter |-> paper_filter, limit |-> limit,
   pc |-> pc, scope_backend |-> scope_backend,
   answer_backend |-> answer_backend,
   llm_classification |-> llm_classification,
   detected_section |-> detected_section, results |-> results,
   assessment |-> assessment, response |-> response, stats_i |-> stats_i,
   returned |-> returned, outcome |-> outcome, scope_calls |-> scope_calls,
   search_log |-> search_log, answer_calls |-> answer_calls,
   stats_log |-> stats_log]

\* the frame of a query() that was called and did not run yet
Called_query(text, filter, k) ==
  [query_text |-> text, paper_filter |-> filter, limit |-> k,
   pc |-> "classify", scope_backend |-> NoValue, answer_backend |-> NoValue,
   llm_classification |-> NoValue, detected_section |-> None,
   results |-> << >>, assessment |-> NoValue, response |-> NoValue,
   stats_i |-> 0, returned |-> NoValue, outcome |-> "running",
   scope_calls |-> 0, search_log |-> << >>, answer_calls |-> 0,
   stats_log |-> << >>]

\* an event loop that keeps one list of hits for all its coroutines
Resume_sharing_results(frame) ==
  /\ query_text' = frame.query_text /\ paper_filter' = frame.paper_filter
  /\ limit' = frame.limit /\ pc' = frame.pc
  /\ scope_backend' = frame.scope_backend
  /\ answer_backend' = frame.answer_backend
  /\ llm_classification' = frame.llm_classification
  /\ detected_section' = frame.detected_section
  /\ UNCHANGED results
  /\ assessment' = frame.assessment /\ response' = frame.response
  /\ stats_i' = frame.stats_i /\ returned' = frame.returned
  /\ outcome' = frame.outcome /\ scope_calls' = frame.scope_calls
  /\ search_log' = frame.search_log /\ answer_calls' = frame.answer_calls
  /\ stats_log' = frame.stats_log

\* the event loop resumes a coroutine: its frame is what it left
Resume(frame) ==
  /\ query_text' = frame.query_text /\ paper_filter' = frame.paper_filter
  /\ limit' = frame.limit /\ pc' = frame.pc
  /\ scope_backend' = frame.scope_backend
  /\ answer_backend' = frame.answer_backend
  /\ llm_classification' = frame.llm_classification
  /\ detected_section' = frame.detected_section
  /\ results' = frame.results
  /\ assessment' = frame.assessment /\ response' = frame.response
  /\ stats_i' = frame.stats_i /\ returned' = frame.returned
  /\ outcome' = frame.outcome /\ scope_calls' = frame.scope_calls
  /\ search_log' = frame.search_log /\ answer_calls' = frame.answer_calls
  /\ stats_log' = frame.stats_log

\* what the services outside answer in one run: the scope backend, the
\* embedding model and the index, the answer backend
ScopeScripts ==
  {s \in ScopeBackendOutcomes : s.kind = "raise" \/ s.text = ScopeTextLocal}
IndexScripts ==
  {[kind |-> k, score |-> 85] : k \in {"embedding_raises", "raise", "hits"}}
AnswerScripts == {"raise", "json_object"}
Scripts ==
  {s \in [scope : ScopeScripts, index : IndexScripts, answer : AnswerScripts] :
     s.index.kind # "hits" => (s.scope.kind = "raise" /\ s.answer = "json_object")}

\* the index scores every point alike and lists them by id
ScriptedHits(search, script) ==
  IF script.kind # "hits" THEN search.raised
  ELSE
    LET ids == {search.hits[i].metadata.id : i \in 1..Len(search.hits)}
        matching == {c.id : c \in {p \in index_points :
                                     MatchesFilter(p, search.filter)}}
    IN
    /\ ~search.raised
    /\ \A i \in 1..Len(search.hits) : search.hits[i].score = script.score
    /\ \A i \in 1..(Len(search.hits) - 1) :
         search.hits[i].metadata.id < search.hits[i+1].metadata.id
    /\ \A m \in matching \ ids : \A j \in ids : j < m

\* the backend returns the JSON object asked for, citing the first chunk of
\* its prompt
ScriptedAnswer(got, script) ==
  IF script = "raise" THEN got.kind = "raise"
  ELSE /\ got.kind = "json_object"
       /\ DOMAIN got.obj = {"answer", "citations", "sources_used",
                            "confidence", "found_relevant_info"}
       /\ Len(got.obj.sources_used) = 1
       /\ got.obj.citations # << >>
       /\ got.obj.citations[1].relevance_score = 95

\* a step of query() in which the services outside answer by the script
Scripted(script) ==
  /\ pc = "classify" => scope_backend' = script.scope
  /\ pc = "retrieve" =>
       IF script.index.kind = "embedding_raises" THEN pc' = "failed"
       ELSE pc' = "score" /\ ScriptedHits(search_log'[1], script.index)
  /\ pc = "ground" => ScriptedAnswer(answer_backend', script.answer)

\* the queries of the two requests
ConcQueries == {QueryHello, QueryMethodology, QuerySummarize, QueryWhichMethod}

Finished(frame) == frame.pc \in {"done", "failed"}

\* request A is about to run alone, on an index of two points; the frame of
\* request B waits
ConcInit ==
  /\ index_points = {AllChunks[1], AllChunks[2]}
  /\ papers = get_papers(index_points)
  /\ chunks = {[paper_id |-> PaperOf(c), vector_id |-> c.id] : c \in index_points}
  /\ paper_stats = InitialStats
  /\ uuids = 0
  /\ \E text \in ConcQueries, filter \in Filters, k \in {MaxLimit},
        script \in Scripts :
       /\ call = [running |-> "alone", script |-> script,
                  A |-> Called_query(text, filter, k)]
       /\ query_text = text /\ paper_filter = filter /\ limit = k
  /\ pc = "classify"
  /\ scope_backend = NoValue /\ answer_backend = NoValue
  /\ llm_classification = NoValue /\ detected_section = None
  /\ results = << >> /\ assessment = NoValue /\ response = NoValue
  /\ stats_i = 0 /\ returned = NoValue /\ outcome = "running"
  /\ scope_calls = 0 /\ search_log = << >> /\ answer_calls = 0
  /\ stats_log = << >>
  /\ \E text \in ConcQueries :
       parked = Called_query(text, {}, 1)
  /\ value = NoValue

\* a step of the query() that runs
RunQuery ==
  /\ Next
  /\ Scripted(call.script)

\* the answer of request A made alone is kept, and the two requests are made
MakeBoth ==
  /\ call.running = "alone"
  /\ Finished(locals)
  /\ value' = [returned |-> returned, outcome |-> outcome]
  /\ call' = [call EXCEPT !.running = "A"]
  /\ Resume(call.A)
  /\ UNCHANGED <<index_points, paper_stats, papers, chunks, parked, uuids>>

\* the coroutine that runs awaits, and the loop resumes the other one
SwitchCoroutine ==
  /\ call.running \in {"A", "B"}
  /\ ~Finished(parked)
  /\ parked' = locals
  /\ Resume(parked)
  /\ call' = [call EXCEPT !.running = IF @ = "A" THEN "B" ELSE "A"]
  /\ UNCHANGED <<index_points, paper_stats, papers, chunks, value, uuids>>

ConcNext ==
  \/ RunQuery
  \/ MakeBoth
  \/ SwitchCoroutine

ConcSpec == ConcInit /\ [][ConcNext]_vars

\* ------------------------------------------------------------------------
\* concurrent queries

\* the frames of request A and of request B
FrameA == IF call.running = "B" THEN parked ELSE locals
FrameB == IF call.running = "B" THEN locals ELSE parked

\* the boosts on the hits of a frame are those of its own re-ranking
OwnBoosts(frame) ==
  \A i \in 1..Len(frame.results) :
    frame.results[i].section_boost =
      IF frame.detected_section = None THEN -1
      ELSE score_boost(frame.results[i], frame.detected_section)

\* C19: a query() that runs interleaved with another one, on the same index
\* and with the same answers of the backends, ends as it ended alone and
\* returns the same QueryResponse, and the hits of either query carry the
\* boosts of its own re-ranking only
C19_ConcurrentAsAlone ==
  call.running \in {"A", "B"} =>
    /\ Finished(FrameA) =>
         /\ FrameA.outcome = value.outcome
         /\ FrameA.returned = value.returned
    /\ OwnBoosts(FrameA)
    /\ OwnBoosts(FrameB)

C19_Witness ==
  /\ call.running = "B"
  /\ FrameA.pc = "done" /\ FrameA.outcome = "grounded"
  /\ FrameA.detected_section # None
  /\ \E i \in 1..Len(FrameA.results) : FrameA.results[i].section_boost > 0
  /\ FrameA.returned = value.returned
  /\ FrameB.pc = "ground" /\ FrameB.detected_section = None
  /\ FrameB.results # << >>
  /\ FrameB.stats_log = << >>

\* ------------------------------------------------------------------------
\* the retrieval of a global query

\* query() has made its retrieval
Retrieved ==
  Classified /\ pc \in {"score", "ground", "grounding", "stats", "done"}
  /\ outcome # "out_of_context"

\* C21: a query of global scope makes one search, with the text of the query
\* as it came and k = min(2 * limit, 20); the hits go to the scoring as the
\* index listed them, with the scores of the index and no boost, no section
\* is detected, and the response reports none
C21_GlobalRetrievalIsPlain ==
  (Retrieved /\ llm_classification.is_global) =>
    /\ Len(search_log) = 1
    /\ search_log[1].text = query_text
    /\ search_log[1].filter = paper_filter
    /\ search_log[1].limit = IF 2 * limit < 20 THEN 2 * limit ELSE 20
    /\ results = search_log[1].hits
    /\ \A i \in 1..Len(results) : results[i].section_boost = -1
    /\ detected_section = None
    /\ returned # NoValue => returned.detected_section = None

C21_Witness ==
  /\ pc = "done" /\ outcome = "grounded"
  /\ llm_classification.is_global
  /\ limit > 10 /\ search_log[1].limit = 20
  /\ Len(results) = 2
  /\ results[1].metadata.section = AllChunks[1].section
  /\ keyword_classify(query_text).detected_section # None

\* ------------------------------------------------------------------------
\* the retrieval of a local query

\* the query has a keyword of a paper section as a whole word
HasSectionKeyword(query) == check_section_specific(Strip(Lower(query))).match

\* C22: a query of local scope that has a section keyword is retrieved by
\* retrieve_section with a section of the query, whatever other keywords it
\* has; the plain search with the text of the query is made only when no
\* section keyword matches
C22_SectionKeywordMeansSectionRetrieval ==
  (Retrieved /\ ~llm_classification.is_global /\ Len(search_log) = 1) =>
    IF HasSectionKeyword(query_text)
    THEN /\ detected_section = check_section_specific(Strip(Lower(query_text))).section
         /\ search_log[1].text = section_query(query_text, detected_section)
    ELSE /\ detected_section = None
         /\ search_log[1].text = query_text

\* ------------------------------------------------------------------------
\* the keyword classifier

\* the characters a word is made of
WordChars ==
  {UpperChars[i] : i \in 1..26} \cup {LowerChars[i] : i \in 1..26} \cup Digits \cup {"_"}

\* the keyword stands in the text between two places that are not inside a
\* word, whatever the case of the text
HasWord(text, keyword) ==
  \E a \in 0..(Len(text) - Len(keyword)) :
     LET b == a + Len(keyword) IN
     /\ Lower(SubSeq(text, a + 1, b)) = keyword
     /\ (a = 0 \/ text[a] \notin WordChars)
     /\ (b = Len(text) \/ text[b + 1] \notin WordChars)

HasWordOf(text, tbl) ==
  \E g \in 1..Len(tbl) : \E j \in 1..Len(tbl[g].keywords) :
     HasWord(text, tbl[g].keywords[j])

\* C23: classify decides the query type by whole-word, case-insensitive
\* matches with the precedence out-of-context, then global operation, then
\* section, and a text with no keyword is CONTEXT_SPECIFIC with confidence 0.7
C23_ClassifyPrecedence ==
  Called("classify") =>
    IF HasWordOf(call.query, OUT_OF_CONTEXT_KEYWORDS)
    THEN value.query_type = QT_OUT_OF_CONTEXT
    ELSE IF HasWordOf(call.query, GLOBAL_KEYWORDS)
    THEN value.query_type = GLOBAL_QUERY
    ELSE IF HasWordOf(call.query, PAPER_SECTIONS)
    THEN value.query_type = SECTION_SPECIFIC
    ELSE value.query_type = CONTEXT_SPECIFIC /\ value.confidence = 70

\* a text with keywords of all three tables has been classified as out of
\* context
C23_Witness ==
  /\ Called("classify")
  /\ call.query = QueryHelloSummarize
  /\ value.query_type = QT_OUT_OF_CONTEXT

\* ------------------------------------------------------------------------
\* retrieve_section

\* the query went through retrieve_section, and its search is on record
SectionRetrieved ==
  /\ Retrieved /\ ~llm_classification.is_global
  /\ detected_section # None /\ Len(search_log) = 1

\* the score a candidate has after the boost for the section
BoostedScore(candidate, section) ==
  LET s == candidate.score + score_boost(candidate, section)
  IN IF s < 100 THEN s ELSE 100

\* C24: retrieve_section searches the text query + " " + section for
\* 2 * limit candidates and returns min(limit, candidates) of them, each with
\* the score min(1, base + boost) and boost >= 0, in non-increasing order of
\* score, leaving out no candidate that scores higher than a returned one
C24_SectionRetrieval ==
  SectionRetrieved =>
    LET search == search_log[1]
        cands == search.hits
    IN
    /\ search.text = query_text \o <<" ">> \o detected_section
    /\ search.limit = 2 * limit
    /\ Len(results) = IF limit < Len(cands) THEN limit ELSE Len(cands)
    /\ \A i \in 1..(Len(results) - 1) : results[i].score >= results[i+1].score
    /\ \A i \in 1..Len(results) : results[i].section_boost >= 0
    /\ \E kept \in SUBSET (1..Len(cands)) :
         /\ Cardinality(kept) = Len(results)
         /\ \A j \in kept : \E i \in 1..Len(results) :
              /\ results[i].metadata = cands[j].metadata
              /\ results[i].text = cands[j].text
              /\ results[i].score =
                   (IF cands[j].score + results[i].section_boost < 100
                    THEN cands[j].score + results[i].section_boost ELSE 100)
         /\ \A i \in 1..Len(results) : \E j \in kept :
              results[i].metadata = cands[j].metadata
         /\ \A j \in (1..Len(cands)) \ kept : \A i \in 1..Len(results) :
              BoostedScore(cands[j], detected_section) <= results[i].score

\* two candidates came back for a limit of one, and the one the index
\* listed second was returned
C24_Witness ==
  /\ SectionRetrieved
  /\ limit = 1
  /\ Len(search_log[1].hits) = 2
  /\ Len(results) = 1
  /\ results[1].metadata = search_log[1].hits[2].metadata

\* ------------------------------------------------------------------------
\* the fallback classifier

\* the keyword is somewhere in the text, inside a word or not
Within(text, keyword) ==
  \E a \in 1..Len(text) :
     /\ a + Len(keyword) - 1 <= Len(text)
     /\ Lower(SubSeq(text, a, a + Len(keyword) - 1)) = keyword

WithinAny(text, kws) == \E i \in 1..Len(kws) : Within(text, kws[i])

\* the order in which the claim lists the groups of global keywords
FallbackOrder ==
  << <<"s","u","m","m","a","r","y">>,
     <<"c","o","m","p","a","r","e">>,
     <<"t","r","a","n","s","l","a","t","e">>,
     <<"r","e","w","r","i","t","e">>,
     <<"o","v","e","r","v","i","e","w">>,
     <<"b","u","l","l","e","t">> >>

KeywordsOfGroup(name) ==
  global_keywords[CHOOSE g \in 1..Len(global_keywords) :
                     global_keywords[g].name = name].keywords

\* C25: the fallback answers OUT_OF_CONTEXT when the query contains an
\* out-of-context keyword; otherwise GLOBAL with the operation of the first
\* group, in the order summary, compare, translate, rewrite, overview,
\* bullet, that has a keyword in the query; otherwise LOCAL with confidence
\* 0.7
C25_FallbackOrder ==
  Called("fallback_classification") =>
    LET hit == {n \in 1..Len(FallbackOrder) :
                  WithinAny(call.query, KeywordsOfGroup(FallbackOrder[n]))}
    IN
    IF WithinAny(call.query, out_of_context_keywords)
    THEN value.scope = SCOPE_OUT_OF_CONTEXT /\ value.operation = None
    ELSE IF hit # {}
    THEN /\ value.scope = SCOPE_GLOBAL
         /\ \E n \in hit :
              /\ \A o \in hit : n <= o
              /\ value.operation = FallbackOrder[n]
    ELSE /\ value.scope = SCOPE_LOCAL
         /\ value.operation = None
         /\ value.confidence = 70

\* a query with a keyword of the compare group and one of the summary group
\* came out as a summary
C25_Witness ==
  /\ Called("fallback_classification")
  /\ call.query = QueryCompareSummarize
  /\ value.scope = SCOPE_GLOBAL
  /\ value.operation = FallbackOrder[1]

\* ------------------------------------------------------------------------
\* the keyword tables

KeywordsOf(tbl) ==
  UNION {{tbl[g].keywords[j] : j \in 1..Len(tbl[g].keywords)} : g \in 1..Len(tbl)}

\* C26: a keyword of the per-section table is in neither of the other two
\* tables, and a query that is just that keyword is classified with a
\* detected section
C26_TablesDisjoint ==
  (Called("classify") /\ call.query \in KeywordsOf(PAPER_SECTIONS)) =>
     /\ call.query \notin KeywordsOf(GLOBAL_KEYWORDS)
     /\ call.query \notin KeywordsOf(OUT_OF_CONTEXT_KEYWORDS)
     /\ KeywordsOf(GLOBAL_KEYWORDS) \cap KeywordsOf(OUT_OF_CONTEXT_KEYWORDS) = {}
     /\ value.query_type = SECTION_SPECIFIC
     /\ value.detected_section # None

\* ------------------------------------------------------------------------
\* the warning of a grounded response

GroundedLow ==
  /\ returned # NoValue /\ outcome = "grounded"
  /\ returned.context_score < (30 * Unit) \div 100

\* the risk the pipeline computed for the response it returned
ReturnedRisk ==
  calculate_hallucination_risk(assessment.context_score, assessment.retrieval_count,
                               assessment.source_diversity).risk

\* C27: a grounded response with context_score < 0.3 carries the
\* low-confidence warning for its score, whatever the hallucination risk
C27_FirstWarningWins ==
  GroundedLow =>
    returned.warning_message =
      (IF returned.context_score < (20 * Unit) \div 100
       THEN "Very Low Confidence" ELSE "Low Confidence")

\* a grounded response with a low score and a risk over 0.6
C27_Witness ==
  /\ GroundedLow
  /\ ReturnedRisk > (60 * Unit) \div 100
  /\ returned.warning_message = "Very Low Confidence"

\* ------------------------------------------------------------------------
\* the response to an empty retrieval

EmptyReturned == returned # NoValue /\ outcome = "empty"

Scored ==
  /\ pc \in {"ground", "grounding", "stats", "done"}
  /\ outcome \notin {"out_of_context", "empty"}
  /\ Len(results) > 0

\* C29: for a non-empty hit list the source diversity is at least 1, the
\* context score bears at most the single-source penalty, and the risk is no
\* higher than with a source bonus of 0.1
C29_DiversityAtLeastOne ==
  Scored =>
    LET scores == [i \in 1..Len(results) |-> results[i].score]
        n == Len(results)
        coverage == IF n >= 5 THEN Unit ELSE (n * Unit) \div 5
    IN
    /\ assessment.retrieval_count = n
    /\ assessment.source_diversity >= 1
    /\ assessment.context_score >= calculate_context_score(scores, coverage, 1).score
    /\ assessment.context_score = calculate_context_score(scores, coverage, 1).score
       \/ assessment.source_diversity > 1
    /\ ReturnedRisk <=
         calculate_hallucination_risk(assessment.context_score, n, 1).risk

\* the only hit has no file_name, and counts as one source
C29_Witness ==
  /\ Scored
  /\ \A i \in 1..Len(results) : results[i].metadata.file_name = Absent
  /\ assessment.source_diversity = 1

\* ------------------------------------------------------------------------
\* the out-of-context answer of the fallback

\* C30: the fallback classifies a query OUT_OF_CONTEXT only if one of the
\* out-of-context keywords stands in it as a whole word or phrase
C30_FallbackOutOfContextNeedsWord ==
  (Called("fallback_classification") /\ value.scope = SCOPE_OUT_OF_CONTEXT) =>
    \E i \in 1..Len(out_of_context_keywords) :
       HasWord(call.query, out_of_context_keywords[i])
====
